---- MODULE Spec2Model ----
(***************************************************************************)
(* Model of gpu-ninja/ldap-operator: distinguished-name derivation         *)
(* (api/v1alpha1), the directory client's entry protocol                   *)
(* (internal/directory) and the control-plane objects they work on.        *)
(*                                                                         *)
(* Strings that the code builds or takes apart (domains, DNs) are          *)
(* sequences of one-character strings, so that strings.Split, strings.Join *)
(* and "+" are computed and not assumed.  Strings the code only copies     *)
(* (descriptions, member DNs, e-mail addresses) are atomic.                *)
(***************************************************************************)
EXTENDS Integers, Sequences, FiniteSets, TLC

VARIABLES
    rootIn,       \* the LDAPDirectory handed to GetDistinguishedName
    rootOut,      \* what the call returned
    directories,  \* control plane: LDAPDirectory objects by name
    groups,       \* control plane: LDAPGroup objects by name
    lastDN,       \* result of the latest GetDistinguishedName on a group
    lastResolve,  \* result of the latest ResolveReferences on a group
    store,        \* remote directory: entries by DN
    last,         \* the latest call on the directory client and its result
    dir,          \* the LDAPDirectory stored in the API server
    cluster,      \* the secrets, StatefulSet and Service next to it
    rec,          \* the latest Reconcile of the directory and its result
    objs,         \* LDAPGroup objects: finalizer, deletion marker, phase, reconcile in flight
    orec,         \* the latest step of the object reconciler and its result
    tplIn,        \* the LDAPDirectory handed to statefulSetTemplate and serviceTemplate
    tplOut        \* the StatefulSet and the Service they returned

vars ==
    <<rootIn, rootOut, directories, groups, lastDN, lastResolve, store, last,
      dir, cluster, rec, objs, orec, tplIn, tplOut>>

(***************************************************************************)
(* Strings                                                                 *)
(***************************************************************************)
Alphabet == {"a", "b"}

MaxLabelLen == 2
MaxLabels == 3

RECURSIVE IndexOf(_, _, _)
\* strings.Index from position i: the first position of character c, 0 if none.
IndexOf(s, c, i) ==
    IF i > Len(s) THEN 0
    ELSE IF s[i] = c THEN i
    ELSE IndexOf(s, c, i + 1)

RECURSIVE Split(_, _)
\* strings.Split(s, sep) for a one-character separator: Split("", sep) is [""].
Split(s, sep) ==
    LET i == IndexOf(s, sep, 1) IN
    IF i = 0 THEN <<s>>
    ELSE <<SubSeq(s, 1, i - 1)>> \o Split(SubSeq(s, i + 1, Len(s)), sep)

RECURSIVE Join(_, _)
\* strings.Join(elems, sep)
Join(elems, sep) ==
    IF Len(elems) = 0 THEN <<>>
    ELSE IF Len(elems) = 1 THEN elems[1]
    ELSE elems[1] \o sep \o Join(Tail(elems), sep)

\* s ends with suffix (strings.HasSuffix)
HasSuffix(s, suffix) ==
    /\ Len(suffix) <= Len(s)
    /\ SubSeq(s, Len(s) - Len(suffix) + 1, Len(s)) = suffix

(***************************************************************************)
(* LDAPDirectory.GetDistinguishedName                                      *)
(***************************************************************************)
\* faulty variant: the labels are joined with "," only, "dc=" is written once
DirectoryDN_JoinComma(s) ==
    <<"d", "c", "=">> \o Join(Split(s.Spec.Domain, "."), <<",">>)

\* "dc=" + strings.Join(strings.Split(s.Spec.Domain, "."), ",dc="), nil
DirectoryDN(s) ==
    <<"d", "c", "=">> \o Join(Split(s.Spec.Domain, "."), <<",", "d", "c", "=">>)

NoError == ""

LDAPDirectory_GetDistinguishedName(s) ==
    [dn |-> DirectoryDN(s), err |-> NoError]

(***************************************************************************)
(* Root DN as a function of the domain: the inputs                         *)
(***************************************************************************)
RECURSIVE SeqsUpTo(_, _)
\* the sequences over S of length 0..n
SeqsUpTo(S, n) ==
    IF n = 0 THEN {<<>>}
    ELSE LET shorter == SeqsUpTo(S, n - 1)
         IN  shorter \cup {Append(q, x) : q \in shorter, x \in S}

\* a label has no dot; it may be empty ("a..b" is a domain one can write)
Labels == SeqsUpTo(Alphabet, MaxLabelLen)

LabelLists == SeqsUpTo(Labels, MaxLabels) \ {<<>>}

Organizations == {"acme", "initech"}

NewDirectory(domain, organization) ==
    [Spec |-> [Domain |-> domain, Organization |-> organization]]

NotCalled == [called |-> FALSE, dn |-> <<>>, err |-> NoError]

\* the directories GetDistinguishedName is tried on, each with its labels
RootInputs ==
    {[labels |-> ls, dir |-> NewDirectory(Join(ls, <<".">>), o)] :
        ls \in LabelLists, o \in Organizations}

\* one call of LDAPDirectory.GetDistinguishedName on the chosen directory
GetRootDN ==
    /\ ~rootOut.called
    /\ LET r == LDAPDirectory_GetDistinguishedName(rootIn.dir)
       IN  rootOut' = [called |-> TRUE, dn |-> r.dn, err |-> r.err]
    /\ UNCHANGED <<rootIn, directories, groups, lastDN, lastResolve, store, last, dir, cluster, rec, objs, orec,
            tplIn, tplOut>>

(***************************************************************************)
(* Control plane: LDAPDirectory and LDAPGroup objects, references          *)
(***************************************************************************)
DirNames == {"d1", "d2"}
GroupNames == {"g1", "g2", "g3"}
\* objects of a kind that is no named LDAP object (they always exist here)
OtherNames == {"c1"}

KindDirectory == "LDAPDirectory"
KindGroup == "LDAPGroup"
KindOther == "ConfigMap"

\* the domains directories are given in the control plane
Domains == {<<"a">>, <<"b", ".", "a">>}

\* spec.name of a group: fixed per object, g1 and g3 share theirs
CommonName(n) == IF n = "g2" THEN <<"y">> ELSE <<"x">>

Ref(kind, name) == [Kind |-> kind, Name |-> name]

\* what a parentRef may name; <<>> is the nil pointer
ParentRefs ==
    {<<>>} \cup {<<Ref(KindGroup, n)>> : n \in GroupNames}
           \cup {<<Ref(KindDirectory, "d1")>>, <<Ref(KindOther, "c1")>>}

NewGroup(name, directoryRef, parentRef) ==
    [Spec |-> [Name |-> name, DirectoryRef |-> directoryRef, ParentRef |-> parentRef]]

\* reference.Resolve: (object, ok, err).  A missing target is (nil, false, nil).
Resolve(ref, dirs, grps) ==
    IF ref.Kind = KindDirectory /\ ref.Name \in DOMAIN dirs
        THEN [ok |-> TRUE, kind |-> ref.Kind, name |-> ref.Name, err |-> NoError]
    ELSE IF ref.Kind = KindGroup /\ ref.Name \in DOMAIN grps
        THEN [ok |-> TRUE, kind |-> ref.Kind, name |-> ref.Name, err |-> NoError]
    ELSE IF ref.Kind = KindOther /\ ref.Name \in OtherNames
        THEN [ok |-> TRUE, kind |-> ref.Kind, name |-> ref.Name, err |-> NoError]
    ELSE [ok |-> FALSE, kind |-> ref.Kind, name |-> ref.Name, err |-> NoError]

\* the type assertion parent.(api.NamedLDAPObject)
IsNamedLDAPObject(kind) == kind \in {KindDirectory, KindGroup}

Failed(msg) == [dn |-> <<>>, err |-> msg]

\* Go recursion has no depth bound.  A chain without a cycle visits each group
\* at most once, so a call that is still descending after MaxDepth groups is on
\* a cycle and never returns: the outcome is "diverges".
MaxDepth == Cardinality(GroupNames) + 1

\* faulty variant: the parent's DN is ignored, the group is put under its own directory
GroupDNUnderDirectory(g, dirs, grps, fuel) ==
    IF g.Spec.DirectoryRef \in DOMAIN dirs
    THEN [dn |-> <<"c", "n", "=">> \o g.Spec.Name \o <<",">>
                   \o DirectoryDN(dirs[g.Spec.DirectoryRef]),
          err |-> NoError]
    ELSE Failed("referenced directory not found")

RECURSIVE GroupDNRec(_, _, _, _)
GroupDNRec(g, dirs, grps, fuel) ==
    IF fuel = 0 THEN Failed("diverges")
    ELSE IF g.Spec.ParentRef # <<>> THEN
        LET parent == Resolve(g.Spec.ParentRef[1], dirs, grps) IN
        IF ~parent.ok /\ parent.err = NoError
            THEN Failed("referenced parent not found")
        ELSE IF parent.err # NoError THEN Failed(parent.err)
        ELSE IF ~IsNamedLDAPObject(parent.kind)
            THEN Failed("parent is not a named ldap object")
        ELSE
            LET parentDN ==
                    IF parent.kind = KindDirectory
                    THEN LDAPDirectory_GetDistinguishedName(dirs[parent.name])
                    ELSE GroupDNRec(grps[parent.name], dirs, grps, fuel - 1)
            IN  IF parentDN.err # NoError THEN Failed(parentDN.err)
                ELSE [dn |-> <<"c", "n", "=">> \o g.Spec.Name \o <<",">> \o parentDN.dn,
                      err |-> NoError]
    ELSE
        LET directory == Resolve(Ref(KindDirectory, g.Spec.DirectoryRef), dirs, grps) IN
        IF ~directory.ok /\ directory.err = NoError
            THEN Failed("referenced directory not found")
        ELSE IF directory.err # NoError THEN Failed(directory.err)
        ELSE IF ~IsNamedLDAPObject(directory.kind)
            THEN Failed("directory is not a named ldap object")
        ELSE
            LET directoryDN == LDAPDirectory_GetDistinguishedName(dirs[directory.name])
            IN  IF directoryDN.err # NoError THEN Failed(directoryDN.err)
                ELSE [dn |-> <<"c", "n", "=">> \o g.Spec.Name \o <<",">> \o directoryDN.dn,
                      err |-> NoError]

\* LDAPGroup.GetDistinguishedName
LDAPGroup_GetDistinguishedName(g, dirs, grps, fuel) ==
    GroupDNRec(g, dirs, grps, fuel)

NoDN == [called |-> FALSE, obj |-> "", dn |-> <<>>, err |-> NoError]

\* a lookup through a reader whose backend may fail: (nil, false, err)
ResolveVia(ref, dirs, grps, backendFails) ==
    IF backendFails
    THEN [ok |-> FALSE, kind |-> ref.Kind, name |-> ref.Name, err |-> "lookup failed"]
    ELSE Resolve(ref, dirs, grps)

\* the lookups of one ResolveReferences call, in the order they are made;
\* failAt names the one whose backend fails, 0 for none
LookupDirectory == 1
LookupParent == 2
FailAts == {0, LookupDirectory, LookupParent}

\* faulty variant: the parent reference is not looked up
ResolveReferencesDirectoryOnly(g, dirs, grps, failAt) ==
    LET d == ResolveVia(Ref(KindDirectory, g.Spec.DirectoryRef), dirs, grps,
                        failAt = LookupDirectory)
    IN  IF ~d.ok \/ d.err # NoError THEN [ok |-> d.ok, err |-> d.err]
        ELSE [ok |-> TRUE, err |-> NoError]

\* LDAPGroup.ResolveReferences
LDAPGroup_ResolveReferences(g, dirs, grps, failAt) ==
    LET d == ResolveVia(Ref(KindDirectory, g.Spec.DirectoryRef), dirs, grps,
                        failAt = LookupDirectory)
    IN  IF ~d.ok \/ d.err # NoError THEN [ok |-> d.ok, err |-> d.err]
        ELSE IF g.Spec.ParentRef # <<>> THEN
            LET p == ResolveVia(g.Spec.ParentRef[1], dirs, grps, failAt = LookupParent)
            IN  IF ~p.ok \/ p.err # NoError THEN [ok |-> p.ok, err |-> p.err]
                ELSE [ok |-> TRUE, err |-> NoError]
        ELSE [ok |-> TRUE, err |-> NoError]

NoResolve == [called |-> FALSE, obj |-> "", failAt |-> 0, ok |-> FALSE, err |-> NoError]

\* no object is stored yet
NoObjects == <<>>

Put(f, k, v) == [x \in DOMAIN f \cup {k} |-> IF x = k THEN v ELSE f[x]]
Drop(f, k) == [x \in DOMAIN f \ {k} |-> f[x]]

\* the API server stores a created or updated LDAPDirectory
ApplyDirectory(n, domain) ==
    /\ directories' = Put(directories, n, NewDirectory(domain, "acme"))
    /\ lastDN' = NoDN
    /\ lastResolve' = NoResolve
    /\ UNCHANGED <<rootIn, rootOut, groups, store, last, dir, cluster, rec, objs, orec,
            tplIn, tplOut>>

DeleteDirectory(n) ==
    /\ n \in DOMAIN directories
    /\ directories' = Drop(directories, n)
    /\ lastDN' = NoDN
    /\ lastResolve' = NoResolve
    /\ UNCHANGED <<rootIn, rootOut, groups, store, last, dir, cluster, rec, objs, orec,
            tplIn, tplOut>>

\* the API server stores a created or updated LDAPGroup
ApplyGroup(n, directoryRef, parentRef) ==
    /\ groups' = Put(groups, n, NewGroup(CommonName(n), directoryRef, parentRef))
    /\ lastDN' = NoDN
    /\ lastResolve' = NoResolve
    /\ UNCHANGED <<rootIn, rootOut, directories, store, last, dir, cluster, rec, objs, orec,
            tplIn, tplOut>>

DeleteGroup(n) ==
    /\ n \in DOMAIN groups
    /\ groups' = Drop(groups, n)
    /\ lastDN' = NoDN
    /\ lastResolve' = NoResolve
    /\ UNCHANGED <<rootIn, rootOut, directories, store, last, dir, cluster, rec, objs, orec,
            tplIn, tplOut>>

\* one call of LDAPGroup.GetDistinguishedName on a stored group
GetGroupDN(n) ==
    /\ n \in DOMAIN groups
    /\ LET r == LDAPGroup_GetDistinguishedName(groups[n], directories, groups, MaxDepth)
       IN  lastDN' = [called |-> TRUE, obj |-> n, dn |-> r.dn, err |-> r.err]
    /\ UNCHANGED <<rootIn, rootOut, directories, groups, lastResolve, store, last, dir, cluster, rec, objs, orec,
            tplIn, tplOut>>

\* one call of LDAPGroup.ResolveReferences on a stored group
ResolveGroupReferences(n, failAt) ==
    /\ n \in DOMAIN groups
    /\ LET r == LDAPGroup_ResolveReferences(groups[n], directories, groups, failAt)
       IN  lastResolve' = [called |-> TRUE, obj |-> n, failAt |-> failAt,
                           ok |-> r.ok, err |-> r.err]
    /\ UNCHANGED <<rootIn, rootOut, directories, groups, lastDN, store, last, dir, cluster, rec, objs, orec,
            tplIn, tplOut>>

(***************************************************************************)
(* Remote directory: entries, and the typed entries of the client          *)
(***************************************************************************)
\* the suffix of the directory the client is connected to ("dc=e,dc=c")
BaseDN == DirectoryDN(NewDirectory(<<"e", ".", "c">>, "acme"))

OuDN == <<"o", "u", "=", "u", ",">> \o BaseDN
SubOuDN == <<"o", "u", "=", "v", ",">> \o OuDN
UserDN == <<"u", "i", "d", "=", "j", ",">> \o SubOuDN
GroupDN == <<"c", "n", "=", "g", ",">> \o BaseDN

ClientDNs == {OuDN, SubOuDN, UserDN, GroupDN}

\* the DN one level up: what follows the first comma
ParentDN(dn) ==
    LET i == IndexOf(dn, ",", 1) IN
    IF i = 0 THEN <<>> ELSE SubSeq(dn, i + 1, Len(dn))

AttrNames == {"objectClass", "ou", "cn", "sn", "uid", "description", "mail",
              "member", "userPassword", "entryUUID"}

\* attributes the server sets and the client never writes
ServerAttrs == {"entryUUID"}
ManagedAttrs == AttrNames \ ServerAttrs

NoAttrs == [a \in AttrNames |-> {}]

NumSalts == 2
Salts == 1..NumSalts

\* the salted one-way hash of a password, as stored in userPassword
Hash(password, salt) == [scheme |-> "{ARGON2}", salt |-> salt, secret |-> password]
Verify(hash, password) == hash.secret = password

\* the typed entries of the client, one record shape with a Kind
Entry(kind, dn) ==
    [Kind |-> kind, DistinguishedName |-> dn, Name |-> "", Description |-> "",
     Members |-> <<>>, Username |-> "", Surname |-> "", Email |-> "", Password |-> ""]

OrganizationalUnit(dn, name, description) ==
    [Entry("OrganizationalUnit", dn) EXCEPT !.Name = name, !.Description = description]

Group(dn, name, description, members) ==
    [Entry("Group", dn) EXCEPT !.Name = name, !.Description = description,
                               !.Members = members]

User(dn, username, name, surname, email, password) ==
    [Entry("User", dn) EXCEPT !.Username = username, !.Name = name, !.Surname = surname,
                              !.Email = email, !.Password = password]

Range(q) == {q[i] : i \in DOMAIN q}

\* an optional field: no attribute when the field is empty
Optional(value) == IF value = "" THEN {} ELSE {value}

\* the attributes of a typed entry; the password is hashed with a fresh salt
ToAttributes(e, salt) ==
    IF e.Kind = "OrganizationalUnit" THEN
        [NoAttrs EXCEPT !["objectClass"] = {"organizationalUnit"},
                        !["ou"] = {e.Name},
                        !["description"] = Optional(e.Description)]
    ELSE IF e.Kind = "Group" THEN
        [NoAttrs EXCEPT !["objectClass"] = {"groupOfNames"},
                        !["cn"] = {e.Name},
                        !["description"] = Optional(e.Description),
                        !["member"] = Range(e.Members)]
    ELSE
        [NoAttrs EXCEPT !["objectClass"] = {"inetOrgPerson"},
                        !["cn"] = {e.Name},
                        !["sn"] = {e.Surname},
                        !["uid"] = {e.Username},
                        !["mail"] = Optional(e.Email),
                        !["userPassword"] =
                            IF e.Password = "" THEN {} ELSE {Hash(e.Password, salt)}]

\* what the client manages of a stored entry
Managed(attrs) == [a \in ManagedAttrs |-> attrs[a]]

(***************************************************************************)
(* The directory server (external): add, modify, delete, search            *)
(***************************************************************************)
Children(st, dn) == {d \in DOMAIN st : ParentDN(d) = dn}

ServerAdd(st, dn, attrs) ==
    IF dn \in DOMAIN st THEN [ok |-> FALSE, store |-> st]
    ELSE IF ParentDN(dn) \notin DOMAIN st THEN [ok |-> FALSE, store |-> st]
    ELSE [ok |-> TRUE, store |-> Put(st, dn, [attrs EXCEPT !["entryUUID"] = {"uuid"}])]

ServerModify(st, dn, attrs) ==
    IF dn \notin DOMAIN st THEN [ok |-> FALSE, store |-> st]
    ELSE [ok |-> TRUE,
          store |-> [st EXCEPT ![dn] =
                        [a \in AttrNames |-> IF a \in ServerAttrs THEN st[dn][a] ELSE attrs[a]]]]

\* the server refuses to delete an entry that has children
ServerDel(st, dn) ==
    IF dn \notin DOMAIN st THEN [ok |-> FALSE, store |-> st]
    ELSE IF Children(st, dn) # {} THEN [ok |-> FALSE, store |-> st]
    ELSE [ok |-> TRUE, store |-> Drop(st, dn)]

(***************************************************************************)
(* Directory client: GetEntry, CreateOrUpdateEntry, DeleteEntry            *)
(***************************************************************************)
GetEntry(st, dn) ==
    IF dn \in DOMAIN st THEN [ok |-> TRUE, attrs |-> Managed(st[dn])]
    ELSE [ok |-> FALSE, attrs |-> Managed(NoAttrs)]

\* faulty variant: an attribute the desired entry lacks keeps its stored values
MergeKeepStale(existing, desired) == IF desired = {} THEN existing ELSE desired

\* faulty variant: desired values are added, stored values are never removed
MergeAddOnly(existing, desired) == existing \cup desired

\* one attribute after the update: added, removed or replaced wholesale
MergeAttribute(existing, desired) == desired

\* faulty variant: the password is hashed again on every update
MergePasswordRehash(existing, password, salt) ==
    IF password = "" THEN {} ELSE {Hash(password, salt)}

\* userPassword after the update: a stored hash that verifies the desired
\* password stays as it is
MergePassword(existing, password, salt) ==
    IF password = "" THEN {}
    ELSE IF \E h \in existing : Verify(h, password) THEN existing
    ELSE {Hash(password, salt)}

UpdatedAttributes(existing, e, salt) ==
    LET desired == ToAttributes(e, salt) IN
    [a \in AttrNames |->
        IF a = "userPassword" THEN MergePassword(existing[a], e.Password, salt)
        ELSE MergeAttribute(existing[a], desired[a])]

\* faulty variant: the result says whether the call changed anything
ReturnChanged(existed, modified) == ~existed \/ modified

\* the boolean CreateOrUpdateEntry returns: the entry was created by the call
ReturnCreated(existed, modified) == ~existed

\* faulty variant: the entry is added without a look at what is stored
CreateOrUpdateEntryAlwaysAdd(st, e, salt) ==
    LET r == ServerAdd(st, e.DistinguishedName, ToAttributes(e, salt))
    IN  [ok |-> r.ok, store |-> r.store, created |-> r.ok]

CreateOrUpdateEntry(st, e, salt) ==
    LET dn == e.DistinguishedName IN
    IF dn \notin DOMAIN st THEN
        LET r == ServerAdd(st, dn, ToAttributes(e, salt))
        IN  [ok |-> r.ok, store |-> r.store,
             created |-> r.ok /\ ReturnCreated(FALSE, TRUE)]
    ELSE
        LET attrs == UpdatedAttributes(st[dn], e, salt)
            modified == Managed(attrs) # Managed(st[dn])
            r == IF modified THEN ServerModify(st, dn, attrs)
                 ELSE [ok |-> TRUE, store |-> st]
        IN  [ok |-> r.ok, store |-> r.store,
             created |-> r.ok /\ ReturnCreated(TRUE, modified)]

RECURSIVE PostOrder(_, _)
RECURSIVE PostOrderAll(_, _)
\* the entries of the subtree at dn, every entry after all of its descendants
PostOrder(st, dn) == PostOrderAll(st, Children(st, dn)) \o <<dn>>

PostOrderAll(st, dns) ==
    IF dns = {} THEN <<>>
    ELSE LET d == CHOOSE x \in dns : TRUE
         IN  PostOrder(st, d) \o PostOrderAll(st, dns \ {d})

RECURSIVE PreOrder(_, _)
RECURSIVE PreOrderAll(_, _)
\* faulty variant: the entry is deleted before its descendants
PreOrder(st, dn) == <<dn>> \o PreOrderAll(st, Children(st, dn))

PreOrderAll(st, dns) ==
    IF dns = {} THEN <<>>
    ELSE LET d == CHOOSE x \in dns : TRUE
         IN  PreOrder(st, d) \o PreOrderAll(st, dns \ {d})

\* the order in which a recursive delete of dn sends its delete requests
DeletionOrder(st, dn) == PostOrder(st, dn)

\* faulty variant: the recursive flag is ignored, the subtree is always deleted
DeleteTargetsAlwaysRecursive(st, dn, recursive) == DeletionOrder(st, dn)

\* the delete requests of DeleteEntry(dn, recursive)
DeleteTargets(st, dn, recursive) ==
    IF recursive THEN DeletionOrder(st, dn) ELSE <<dn>>

RECURSIVE DeleteAll(_, _, _)
\* the delete requests are sent one by one; the first refusal ends the call
DeleteAll(st, order, done) ==
    IF order = <<>> THEN [ok |-> TRUE, store |-> st, order |-> done]
    ELSE LET r == ServerDel(st, Head(order)) IN
         IF ~r.ok THEN [ok |-> FALSE, store |-> st, order |-> done]
         ELSE DeleteAll(r.store, Tail(order), Append(done, Head(order)))

\* an entry that is already gone counts as deleted
DeleteEntry(st, dn, recursive) ==
    IF dn \notin DOMAIN st THEN [ok |-> TRUE, store |-> st, order |-> <<>>]
    ELSE DeleteAll(st, DeleteTargets(st, dn, recursive), <<>>)

(***************************************************************************)
(* Calls on the directory client                                           *)
(***************************************************************************)
Descriptions == {"", "text"}
Emails == {"", "j@e.c"}
Passwords == {"", "changeme", "other"}
MemberLists == {<<"cn=admin">>, <<"cn=admin", "cn=other">>, <<"cn=other">>}

\* the entries callers hand to CreateOrUpdateEntry
Entries ==
    {OrganizationalUnit(dn, "ou", d) : dn \in {OuDN, SubOuDN}, d \in Descriptions}
    \cup {Group(GroupDN, "g", d, m) : d \in Descriptions, m \in MemberLists}
    \cup {User(UserDN, "j", "John", "Doe", m, p) : m \in Emails, p \in Passwords}

BaseEntry == [NoAttrs EXCEPT !["objectClass"] = {"dcObject"}, !["entryUUID"] = {"uuid"}]

NoCall ==
    [op |-> "none", entry |-> Entry("", <<>>), dn |-> <<>>, recursive |-> FALSE,
     ok |-> TRUE, created |-> FALSE, order |-> <<>>, got |-> Managed(NoAttrs),
     before |-> <<>>]

\* the bootstrapped database holds the base entry only
BootstrappedStore == [d \in {BaseDN} |-> BaseEntry]

CallCreateOrUpdateEntry(e, salt) ==
    /\ LET r == CreateOrUpdateEntry(store, e, salt) IN
        /\ store' = r.store
        /\ last' = [NoCall EXCEPT !.op = "CreateOrUpdateEntry", !.entry = e,
                                  !.dn = e.DistinguishedName, !.ok = r.ok,
                                  !.created = r.created, !.before = store]
    /\ UNCHANGED <<rootIn, rootOut, directories, groups, lastDN, lastResolve, dir, cluster, rec, objs, orec,
            tplIn, tplOut>>

CallDeleteEntry(dn, recursive) ==
    /\ LET r == DeleteEntry(store, dn, recursive) IN
        /\ store' = r.store
        /\ last' = [NoCall EXCEPT !.op = "DeleteEntry", !.dn = dn,
                                  !.recursive = recursive, !.ok = r.ok,
                                  !.order = r.order, !.before = store]
    /\ UNCHANGED <<rootIn, rootOut, directories, groups, lastDN, lastResolve, dir, cluster, rec, objs, orec,
            tplIn, tplOut>>

CallGetEntry(dn) ==
    /\ LET r == GetEntry(store, dn) IN
        last' = [NoCall EXCEPT !.op = "GetEntry", !.dn = dn, !.ok = r.ok,
                               !.got = r.attrs, !.before = store]
    /\ UNCHANGED <<store, rootIn, rootOut, directories, groups, lastDN, lastResolve, dir, cluster, rec, objs, orec,
            tplIn, tplOut>>

(***************************************************************************)
(* LDAPDirectoryReconciler: the stored LDAPDirectory and what it owns      *)
(***************************************************************************)
FinalizerName == "ldap.gpu-ninja.com/finalizer"
\* a finalizer some other controller put on the object
OtherFinalizer == "example.com/other"

adminPasswordLength == 32
\* seconds
reconcileRetryInterval == 5

PhaseNone == ""
PhasePending == "Pending"
PhaseReady == "Ready"
PhaseFailed == "Failed"

MaxGeneration == 2

NoStatus == [phase |-> PhaseNone, observedGeneration |-> 0, conditions |-> <<>>]

\* the value of dir while no LDAPDirectory is stored
NoDirectory ==
    [exists |-> FALSE, generation |-> 0, deleting |-> FALSE, finalizers |-> {},
     status |-> NoStatus]

\* secrets, StatefulSet and Service of the directory's namespace
EmptyCluster ==
    [certSecret |-> FALSE,
     adminSecret |-> [exists |-> FALSE, length |-> 0, data |-> ""],
     sts |-> [exists |-> FALSE, ready |-> FALSE],
     svc |-> [exists |-> FALSE]]

NoReconcile ==
    [called |-> FALSE, before |-> [dir |-> NoDirectory, cluster |-> EmptyCluster],
     refs |-> <<>>, trace |-> <<>>, events |-> <<>>, err |-> NoError,
     requeueAfter |-> 0]

\* the API calls of one Reconcile that may fail; "none": all succeed
FailPoints ==
    {"none", "get", "addFinalizer", "removeFinalizer", "resolve", "getSecret",
     "generate", "setOwner", "createSecret", "stsTemplate", "applySts",
     "svcTemplate", "applySvc", "getSts"}

\* LDAPDirectory.ResolveReferences: the certificate secret is looked up
LDAPDirectory_ResolveReferences(certSecretExists, backendFails) ==
    IF backendFails THEN [ok |-> FALSE, err |-> "lookup failed"]
    ELSE IF ~certSecretExists THEN [ok |-> FALSE, err |-> NoError]
    ELSE [ok |-> TRUE, err |-> NoError]

(***************************************************************************)
(* One Reconcile, statement by statement.  x is the invocation so far: the *)
(* stored objects, what ResolveReferences returned (refs, empty until it   *)
(* is called), the requests sent, the events, and the result once the      *)
(* function has returned (done).                                           *)
(***************************************************************************)
Enter(d, c) ==
    [dir |-> d, cluster |-> c, refs |-> <<>>, trace |-> <<>>, events |-> <<>>,
     err |-> NoError, requeueAfter |-> 0, done |-> FALSE]

Return(x, err, requeueAfter) ==
    [x EXCEPT !.err = err, !.requeueAfter = requeueAfter, !.done = TRUE]

\* a write request to the API server and whether it was accepted
Did(x, op, ok) == [x EXCEPT !.trace = Append(@, [op |-> op, ok |-> ok])]

\* r.Recorder.Event
Emit(x, type, reason) == [x EXCEPT !.events = Append(@, [type |-> type, reason |-> reason])]

\* meta.SetStatusCondition: the condition of that type is set, others stay
SetStatusCondition(conditions, type, generation, reason, message) ==
    Put(conditions, type,
        [status |-> "True", observedGeneration |-> generation,
         reason |-> reason, message |-> message])

\* faulty variant: the status write leaves observedGeneration as it was
UpdateStatusKeepingGeneration(x, phase, reason, message, statusFails) ==
    IF statusFails THEN Did(x, "status", FALSE)
    ELSE Did([x EXCEPT !.dir.status =
                 [phase |-> phase,
                  observedGeneration |-> x.dir.status.observedGeneration,
                  conditions |-> SetStatusCondition(x.dir.status.conditions, phase,
                                                    x.dir.generation, reason, message)]],
             "status", TRUE)

\* updater.UpdateStatus with the mutation of markPending, markReady, markFailed
UpdateStatus(x, phase, reason, message, statusFails) ==
    IF statusFails THEN Did(x, "status", FALSE)
    ELSE Did([x EXCEPT !.dir.status =
                 [phase |-> phase,
                  observedGeneration |-> x.dir.generation,
                  conditions |-> SetStatusCondition(x.dir.status.conditions, phase,
                                                    x.dir.generation, reason, message)]],
             "status", TRUE)

markPending(x, statusFails) ==
    UpdateStatus(x, PhasePending, "Pending", "LDAP directory is pending", statusFails)

markReady(x, statusFails) ==
    UpdateStatus(x, PhaseReady, "Ready", "LDAP directory is ready", statusFails)

\* a failed status write is logged, not returned
markFailed(x, err, statusFails) ==
    UpdateStatus(x, PhaseFailed, "Failed", err, statusFails)

\* faulty variant: the error branch marks Pending
FailWithPending(x, err, statusFails) ==
    Return(markPending(Emit(x, "Warning", "Failed"), statusFails), err, 0)

\* Warning event "Failed", markFailed, return the error
FailWith(x, err, statusFails) ==
    Return(markFailed(Emit(x, "Warning", "Failed"), err, statusFails), err, 0)

\* faulty variant: a missing object is not noticed, the reconcile goes on
GetDirectoryUnchecked(x, fail) ==
    IF fail = "get" THEN Return(x, "failed to get directory", 0)
    ELSE x

\* r.Get of the directory: a missing object ends the reconcile quietly
GetDirectory(x, fail) ==
    IF fail = "get" THEN Return(x, "failed to get directory", 0)
    ELSE IF ~x.dir.exists THEN Return(x, NoError, 0)
    ELSE x

\* the API server accepts no new finalizer on an object that is being deleted
PatchAccepted(d, fail) == fail # "addFinalizer" /\ ~d.deleting

\* faulty variant: a rejected finalizer patch is ignored
AddFinalizerIgnoringError(x, fail) ==
    IF x.done \/ FinalizerName \in x.dir.finalizers THEN x
    ELSE IF ~PatchAccepted(x.dir, fail) THEN Did(x, "addFinalizer", FALSE)
    ELSE Did([x EXCEPT !.dir.finalizers = @ \cup {FinalizerName}], "addFinalizer", TRUE)

\* the finalizer is patched in when the object does not carry it
AddFinalizer(x, fail) ==
    IF x.done \/ FinalizerName \in x.dir.finalizers THEN x
    ELSE IF ~PatchAccepted(x.dir, fail)
         THEN Return(Did(x, "addFinalizer", FALSE), "failed to add finalizer", 0)
    ELSE Did([x EXCEPT !.dir.finalizers = @ \cup {FinalizerName}], "addFinalizer", TRUE)

\* the API server removes a deleting object with its last finalizer
WithoutFinalizer(d, f) ==
    IF d.deleting /\ d.finalizers \ {f} = {} THEN NoDirectory
    ELSE [d EXCEPT !.finalizers = @ \ {f}]

\* the deletion branch: our finalizer is released, nothing else is done
HandleDeletion(x, fail) ==
    IF x.done \/ ~x.dir.deleting THEN x
    ELSE IF FinalizerName \notin x.dir.finalizers THEN Return(x, NoError, 0)
    ELSE IF fail = "removeFinalizer"
         THEN Return(Did(x, "removeFinalizer", FALSE), "failed to remove finalizer", 0)
    ELSE Return(Did([x EXCEPT !.dir = WithoutFinalizer(@, FinalizerName)],
                    "removeFinalizer", TRUE), NoError, 0)

\* faulty variant: unresolved references are passed over
ResolveStepIgnoringUnresolved(x, fail, statusFails) ==
    IF x.done THEN x
    ELSE LET r == LDAPDirectory_ResolveReferences(x.cluster.certSecret, fail = "resolve")
             x1 == [x EXCEPT !.refs = <<r>>]
         IN  IF r.err # NoError
             THEN FailWith(x1, "failed to resolve references", statusFails)
             ELSE x1

\* faulty variant: a resolution error is returned without the Failed mark
ResolveStepUnmarked(x, fail, statusFails) ==
    IF x.done THEN x
    ELSE LET r == LDAPDirectory_ResolveReferences(x.cluster.certSecret, fail = "resolve")
             x1 == [x EXCEPT !.refs = <<r>>]
         IN  IF ~r.ok /\ r.err = NoError THEN
                 LET y == markPending(Emit(x1, "Warning", "NotReady"), statusFails)
                 IN  IF statusFails THEN Return(y, "failed to mark as pending", 0)
                     ELSE Return(y, NoError, reconcileRetryInterval)
             ELSE IF r.err # NoError
             THEN Return(x1, "failed to resolve references", 0)
             ELSE x1

\* references: unresolved waits as Pending, an error fails the reconcile
ResolveStep(x, fail, statusFails) ==
    IF x.done THEN x
    ELSE LET r == LDAPDirectory_ResolveReferences(x.cluster.certSecret, fail = "resolve")
             x1 == [x EXCEPT !.refs = <<r>>]
         IN  IF ~r.ok /\ r.err = NoError THEN
                 LET y == markPending(Emit(x1, "Warning", "NotReady"), statusFails)
                 IN  IF statusFails THEN Return(y, "failed to mark as pending", 0)
                     ELSE Return(y, NoError, reconcileRetryInterval)
             ELSE IF r.err # NoError
             THEN FailWith(x1, "failed to resolve references", statusFails)
             ELSE x1

\* what password.Generate may return
GeneratedPasswords == {"pw1", "pw2"}

\* faulty variant: a password is generated and stored on every pass
AdminSecretStepRegenerate(x, fail, pw) ==
    IF x.done THEN x
    ELSE IF fail = "getSecret" THEN Return(x, "failed to get admin password secret", 0)
    ELSE Did([x EXCEPT !.cluster.adminSecret =
                 [exists |-> TRUE, length |-> adminPasswordLength, data |-> pw]],
             "createSecret", TRUE)

\* the admin password secret is generated once, when it is not found
AdminSecretStep(x, fail, pw) ==
    IF x.done THEN x
    ELSE IF fail = "getSecret" THEN Return(x, "failed to get admin password secret", 0)
    ELSE IF x.cluster.adminSecret.exists THEN x
    ELSE IF fail = "generate"
         THEN Return(x, "failed to generate random admin password", 0)
    ELSE IF fail = "setOwner"
         THEN Return(x, "failed to set owner reference on admin password secret", 0)
    ELSE IF fail = "createSecret"
         THEN Return(Did(x, "createSecret", FALSE),
                     "failed to create admin password secret", 0)
    ELSE Did([x EXCEPT !.cluster.adminSecret =
                 [exists |-> TRUE, length |-> adminPasswordLength, data |-> pw]],
             "createSecret", TRUE)

\* faulty variant: a failed apply is returned without the Failed mark
StatefulSetStepUnmarked(x, fail, statusFails) ==
    IF x.done THEN x
    ELSE IF fail = "stsTemplate"
         THEN FailWith(x, "failed to generate statefulset template", statusFails)
    ELSE IF fail = "applySts"
         THEN Return(Did(x, "applySts", FALSE), "failed to reconcile statefulset", 0)
    ELSE Did([x EXCEPT !.cluster.sts.exists = TRUE], "applySts", TRUE)

\* statefulSetTemplate and CreateOrUpdateFromTemplate
StatefulSetStep(x, fail, statusFails) ==
    IF x.done THEN x
    ELSE IF fail = "stsTemplate"
         THEN FailWith(x, "failed to generate statefulset template", statusFails)
    ELSE IF fail = "applySts"
         THEN FailWith(Did(x, "applySts", FALSE), "failed to reconcile statefulset",
                       statusFails)
    ELSE Did([x EXCEPT !.cluster.sts.exists = TRUE], "applySts", TRUE)

\* serviceTemplate and CreateOrUpdateFromTemplate
ServiceStep(x, fail, statusFails) ==
    IF x.done THEN x
    ELSE IF fail = "svcTemplate"
         THEN FailWith(x, "failed to generate service template", statusFails)
    ELSE IF fail = "applySvc"
         THEN FailWith(Did(x, "applySvc", FALSE), "failed to reconcile service",
                       statusFails)
    ELSE Did([x EXCEPT !.cluster.svc.exists = TRUE], "applySvc", TRUE)

\* isStatefulSetReady: ReadyReplicas = *Spec.Replicas
isStatefulSetReady(sts) == sts.exists /\ sts.ready

\* faulty variant: the readiness of the StatefulSet is not awaited
ReadinessStepNoGate(x, fail, statusFails) ==
    IF x.done THEN x
    ELSE IF fail = "getSts"
         THEN FailWith(x, "failed to check if statefulset is ready", statusFails)
    ELSE x

\* the readiness gate: not ready waits as Pending
ReadinessStep(x, fail, statusFails) ==
    IF x.done THEN x
    ELSE IF fail = "getSts"
         THEN FailWith(x, "failed to check if statefulset is ready", statusFails)
    ELSE IF ~isStatefulSetReady(x.cluster.sts) THEN
         LET y == markPending(Emit(x, "Normal", "Pending"), statusFails)
         IN  IF statusFails THEN Return(y, "failed to mark as pending", 0)
             ELSE Return(y, NoError, reconcileRetryInterval)
    ELSE x

\* faulty variant: Ready is notified and written on every successful pass
ReadyStepAlways(x, statusFails) ==
    IF x.done THEN x
    ELSE LET y == markReady(Emit(x, "Normal", "Created"), statusFails)
         IN  IF statusFails THEN Return(y, "failed to mark as ready", 0)
             ELSE Return(y, NoError, 0)

\* Ready is marked when the phase is not Ready yet
ReadyStep(x, statusFails) ==
    IF x.done THEN x
    ELSE IF x.dir.status.phase # PhaseReady THEN
         LET y == markReady(Emit(x, "Normal", "Created"), statusFails)
         IN  IF statusFails THEN Return(y, "failed to mark as ready", 0)
             ELSE Return(y, NoError, 0)
    ELSE Return(x, NoError, 0)

\* the one element of a singleton set
The(S) == CHOOSE v \in S : TRUE

\* the whole of Reconcile on the stored objects d, c: the steps in the order
\* of the code, each on the outcome of the one before
ReconcileResult(d, c, fail, statusFails, pw) ==
    The({ReadyStep(x8, statusFails) :
      x8 \in {ReadinessStep(x7, fail, statusFails) :
        x7 \in {ServiceStep(x6, fail, statusFails) :
          x6 \in {StatefulSetStep(x5, fail, statusFails) :
            x5 \in {AdminSecretStep(x4, fail, pw) :
              x4 \in {ResolveStep(x3, fail, statusFails) :
                x3 \in {HandleDeletion(x2, fail) :
                  x2 \in {AddFinalizer(x1, fail) :
                    x1 \in {GetDirectory(Enter(d, c), fail)}}}}}}}}})

\* password.Generate draws 32 random characters: what it returns differs
\* from the password stored so far, if there is one
PasswordDraws ==
    IF cluster.adminSecret.exists
    THEN GeneratedPasswords \ {cluster.adminSecret.data}
    ELSE {"pw1"}

Reconcile(fail, statusFails, pw) ==
    LET x == ReconcileResult(dir, cluster, fail, statusFails, pw)
    IN  /\ dir' = x.dir
        /\ cluster' = x.cluster
        /\ rec' = [called |-> TRUE, before |-> [dir |-> dir, cluster |-> cluster],
                   refs |-> x.refs, trace |-> x.trace, events |-> x.events,
                   err |-> x.err,
                   requeueAfter |-> x.requeueAfter]
        /\ UNCHANGED <<rootIn, rootOut, directories, groups, lastDN, lastResolve,
                       store, last, objs, orec, tplIn, tplOut>>

(***************************************************************************)
(* What users, the kubelet and other controllers do to the same objects    *)
(***************************************************************************)
Others ==
    <<rootIn, rootOut, directories, groups, lastDN, lastResolve, store, last, objs, orec,
      tplIn, tplOut>>

CreateDirectoryObject(finalizers) ==
    /\ ~dir.exists
    /\ dir' = [exists |-> TRUE, generation |-> 1, deleting |-> FALSE,
               finalizers |-> finalizers, status |-> NoStatus]
    /\ rec' = NoReconcile
    /\ UNCHANGED cluster
    /\ UNCHANGED Others

\* a change of the spec bumps metadata.generation
UpdateDirectorySpec ==
    /\ dir.exists /\ ~dir.deleting
    /\ dir.generation < MaxGeneration
    /\ dir' = [dir EXCEPT !.generation = @ + 1]
    /\ rec' = NoReconcile
    /\ UNCHANGED cluster
    /\ UNCHANGED Others

\* kubectl delete: the object goes at once unless finalizers hold it
DeleteDirectoryObject ==
    /\ dir.exists /\ ~dir.deleting
    /\ dir' = IF dir.finalizers = {} THEN NoDirectory ELSE [dir EXCEPT !.deleting = TRUE]
    /\ rec' = NoReconcile
    /\ UNCHANGED cluster
    /\ UNCHANGED Others

\* the other controller releases its finalizer
ReleaseOtherFinalizer ==
    /\ dir.exists /\ dir.deleting /\ OtherFinalizer \in dir.finalizers
    /\ dir' = WithoutFinalizer(dir, OtherFinalizer)
    /\ rec' = NoReconcile
    /\ UNCHANGED cluster
    /\ UNCHANGED Others

\* the certificate secret named by spec.certificateSecretRef comes and goes
SetCertificateSecret(exists) ==
    /\ cluster.certSecret # exists
    /\ cluster' = [cluster EXCEPT !.certSecret = exists]
    /\ rec' = NoReconcile
    /\ UNCHANGED dir
    /\ UNCHANGED Others

\* the replicas of the StatefulSet become ready or stop being ready
SetStatefulSetReady(ready) ==
    /\ cluster.sts.exists /\ cluster.sts.ready # ready
    /\ cluster' = [cluster EXCEPT !.sts.ready = ready]
    /\ rec' = NoReconcile
    /\ UNCHANGED dir
    /\ UNCHANGED Others

\* owner references: what the directory owned goes after it
GarbageCollect ==
    /\ ~dir.exists
    /\ cluster # [EmptyCluster EXCEPT !.certSecret = cluster.certSecret]
    /\ cluster' = [EmptyCluster EXCEPT !.certSecret = cluster.certSecret]
    /\ rec' = NoReconcile
    /\ UNCHANGED dir
    /\ UNCHANGED Others

(***************************************************************************)
(* LDAPObjectReconciler on LDAPGroup objects: the generic reconciler of     *)
(* the state machine, with ResolveReferences and GetDistinguishedName of   *)
(* the group and the directory client                                      *)
(***************************************************************************)
\* metadata and status of a group that is not stored
NoMeta == [finalizer |-> FALSE, deleting |-> FALSE, phase |-> "", pc |-> "idle"]
NoMetas == [n \in GroupNames |-> NoMeta]

NoObjectReconcile ==
    [called |-> FALSE, obj |-> "", step |-> "", phaseBefore |-> "", phase |-> "",
     err |-> NoError, requeueAfter |-> 0, directoryMissing |-> FALSE,
     parentMissing |-> FALSE, deleteAttempted |-> FALSE, entryBefore |-> FALSE,
     entryAfter |-> FALSE, released |-> FALSE]

\* the group's directory reference names an object that is not stored
DirectoryMissing(g, dirs, grps) ==
    LET d == Resolve(Ref(KindDirectory, g.Spec.DirectoryRef), dirs, grps)
    IN  ~d.ok /\ d.err = NoError

\* the group's parent reference names an object that is not stored
ParentMissing(g, dirs, grps) ==
    /\ g.Spec.ParentRef # <<>>
    /\ LET p == Resolve(g.Spec.ParentRef[1], dirs, grps) IN ~p.ok /\ p.err = NoError

\* the entry the group maps to
GroupToEntry(g, dn) == Group(dn, g.Spec.Name, "", <<"cn=admin">>)

\* faulty variant: the finalizer is released without looking at the entry
ReleaseUnchecked(st, dn) == [ok |-> TRUE, store |-> st, order |-> <<>>]

\* deletion step: the remote entry is deleted, an entry already gone is fine
DeleteRemote(st, dn) == DeleteEntry(st, dn, FALSE)

\* a reconcile of a group begins: deletion, finalizer, references
ObjectReconcileStart(n) ==
    /\ n \in DOMAIN groups /\ objs[n].pc = "idle"
    /\ \E g \in {groups[n]} :
       \E dn \in {LDAPGroup_GetDistinguishedName(g, directories, groups, MaxDepth)},
          r \in {LDAPGroup_ResolveReferences(g, directories, groups, 0)},
          did \in {[NoObjectReconcile EXCEPT !.called = TRUE, !.obj = n,
                       !.phaseBefore = objs[n].phase, !.phase = objs[n].phase,
                       !.directoryMissing = DirectoryMissing(g, directories, groups),
                       !.parentMissing = ParentMissing(g, directories, groups)]} :
           IF objs[n].deleting THEN
               IF dn.err # NoError THEN
                   /\ orec' = [did EXCEPT !.step = "delete", !.err = dn.err]
                   /\ UNCHANGED <<groups, objs, store>>
               ELSE \E d \in {DeleteRemote(store, dn.dn)} :
                   /\ store' = d.store
                   /\ orec' = [did EXCEPT !.step = "delete", !.deleteAttempted = TRUE,
                                          !.err = IF d.ok THEN NoError
                                                  ELSE "failed to delete entry",
                                          !.entryBefore = dn.dn \in DOMAIN store,
                                          !.entryAfter = dn.dn \in DOMAIN d.store,
                                          !.released = d.ok,
                                          !.phase = IF d.ok THEN "" ELSE objs[n].phase]
                   /\ groups' = IF d.ok THEN Drop(groups, n) ELSE groups
                   /\ objs' = IF d.ok THEN [objs EXCEPT ![n] = NoMeta] ELSE objs
           ELSE IF ~r.ok /\ r.err = NoError THEN
               /\ objs' = [objs EXCEPT ![n].finalizer = TRUE, ![n].phase = PhasePending]
               /\ orec' = [did EXCEPT !.step = "resolve", !.phase = PhasePending,
                                      !.requeueAfter = reconcileRetryInterval]
               /\ UNCHANGED <<groups, store>>
           ELSE IF r.err # NoError THEN
               /\ objs' = [objs EXCEPT ![n].finalizer = TRUE, ![n].phase = PhaseFailed]
               /\ orec' = [did EXCEPT !.step = "resolve", !.phase = PhaseFailed,
                                      !.err = r.err]
               /\ UNCHANGED <<groups, store>>
           ELSE
               /\ objs' = [objs EXCEPT ![n].finalizer = TRUE, ![n].pc = "apply"]
               /\ orec' = [did EXCEPT !.step = "resolve"]
               /\ UNCHANGED <<groups, store>>
    /\ UNCHANGED <<rootIn, rootOut, directories, lastDN, lastResolve, last,
                   dir, cluster, rec, tplIn, tplOut>>

\* the reconcile goes on: DN, entry, createOrUpdateEntry, Ready
ObjectReconcileApply(n) ==
    /\ n \in DOMAIN groups /\ objs[n].pc = "apply"
    /\ \E g \in {groups[n]} :
       \E dn \in {LDAPGroup_GetDistinguishedName(g, directories, groups, MaxDepth)},
          did \in {[NoObjectReconcile EXCEPT !.called = TRUE, !.obj = n, !.step = "apply",
                       !.phaseBefore = objs[n].phase, !.phase = objs[n].phase,
                       !.directoryMissing = DirectoryMissing(g, directories, groups),
                       !.parentMissing = ParentMissing(g, directories, groups)]} :
           IF dn.err # NoError THEN
               /\ objs' = [objs EXCEPT ![n].phase = PhaseFailed, ![n].pc = "idle"]
               /\ orec' = [did EXCEPT !.phase = PhaseFailed, !.err = dn.err]
               /\ UNCHANGED store
           ELSE \E c \in {CreateOrUpdateEntry(store, GroupToEntry(g, dn.dn), 1)} :
               /\ store' = c.store
               /\ objs' = [objs EXCEPT ![n].pc = "idle",
                                       ![n].phase = IF c.ok THEN PhaseReady ELSE PhaseFailed]
               /\ orec' = [did EXCEPT !.phase = IF c.ok THEN PhaseReady ELSE PhaseFailed,
                                      !.err = IF c.ok THEN NoError
                                              ELSE "failed to create or update entry",
                                      !.entryBefore = dn.dn \in DOMAIN store,
                                      !.entryAfter = dn.dn \in DOMAIN c.store]
    /\ UNCHANGED <<rootIn, rootOut, directories, groups, lastDN, lastResolve, last,
                   dir, cluster, rec, tplIn, tplOut>>

\* the groups that are reconciled: g2 and its child g1
ObjectNames == {"g1", "g2"}

\* users create and delete the directory and the groups
SetDirectoryObject(n, exists) ==
    /\ (n \in DOMAIN directories) # exists
    /\ directories' = IF exists THEN Put(directories, n, NewDirectory(<<"e", ".", "c">>, "acme"))
                      ELSE Drop(directories, n)
    /\ orec' = NoObjectReconcile
    /\ UNCHANGED <<rootIn, rootOut, groups, lastDN, lastResolve, store, last,
                   dir, cluster, rec, objs, tplIn, tplOut>>

CreateGroupObject(n, directoryRef, parentRef) ==
    /\ n \notin DOMAIN groups
    /\ groups' = Put(groups, n, NewGroup(CommonName(n), directoryRef, parentRef))
    /\ orec' = NoObjectReconcile
    /\ UNCHANGED <<rootIn, rootOut, directories, lastDN, lastResolve, store, last,
                   dir, cluster, rec, objs, tplIn, tplOut>>

\* a delete removes the object at once unless the finalizer holds it
DeleteGroupObject(n) ==
    /\ n \in DOMAIN groups /\ ~objs[n].deleting
    /\ IF objs[n].finalizer
       THEN objs' = [objs EXCEPT ![n].deleting = TRUE] /\ UNCHANGED groups
       ELSE groups' = Drop(groups, n) /\ UNCHANGED objs
    /\ orec' = NoObjectReconcile
    /\ UNCHANGED <<rootIn, rootOut, directories, lastDN, lastResolve, store, last,
                   dir, cluster, rec, tplIn, tplOut>>

(***************************************************************************)
(* statefulSetTemplate and serviceTemplate: names, labels, selectors and   *)
(* the merge of the user's volume claim templates and volume mounts        *)
(***************************************************************************)
\* metadata.name and metadata.namespace of the directories rendered
TemplateNames == {<<"d", "1">>, <<"d", "2">>}
Namespaces == {"ns1", "ns2"}

LabelName == "app.kubernetes.io/name"
LabelInstance == "app.kubernetes.io/instance"
LabelManagedBy == "app.kubernetes.io/managed-by"
ManagedLabels == {LabelName, LabelInstance, LabelManagedBy}

\* metadata.labels of the directory: any of these keys, with a user's value
UserLabelKeys == ManagedLabels \cup {"team"}
UserLabelValues == {"u", "v"}
UserLabels == UNION {[keys -> UserLabelValues] : keys \in SUBSET UserLabelKeys}

\* a named item of a list: a PersistentVolumeClaim or a VolumeMount
Item(name, body) == [Name |-> name, Body |-> body]

\* defaultVolumeClaimTemplates
defaultVolumeClaimTemplates == <<Item("config", "10Mi"), Item("data", "100Mi")>>

defaultVolumeMounts ==
    <<Item("config", "/etc/ldap/slapd.d"), Item("data", "/var/lib/ldap"),
      Item("certs", "/etc/ldap/certs")>>

\* what users put in spec.volumeClaimTemplates and spec.volumeMounts
MaxItems == 2
UserBodies == {"u1", "u2"}
UserClaims == {Item(n, b) : n \in {"data", "extra", "more"}, b \in UserBodies}
UserMounts == {Item(n, b) : n \in {"certs", "extra", "more"}, b \in UserBodies}
ListsOf(S) == UNION {[1..n -> S] : n \in 0..MaxItems}

\* the inner loop: the index of the first item of that name, 0 for not found
FoundAt(list, name) ==
    IF \E i \in DOMAIN list : list[i].Name = name
    THEN CHOOSE i \in DOMAIN list :
             /\ list[i].Name = name
             /\ \A j \in 1..(i - 1) : list[j].Name # name
    ELSE 0

\* faulty variant: every user item is appended
AppendAll(list, items) == list \o items

\* the outer loop: each user item replaces the item of its name or is appended
RECURSIVE MergeByName(_, _)
MergeByName(list, items) ==
    IF items = <<>> THEN list
    ELSE LET item == Head(items)
             i == FoundAt(list, item.Name)
         IN  MergeByName(IF i # 0 THEN [list EXCEPT ![i] = item] ELSE Append(list, item),
                         Tail(items))

\* "ldap-" + directory.Name
ResourceName(d) == <<"l", "d", "a", "p", "-">> \o d.Name

\* the pods of one directory
SelectorLabels(d) ==
    Put(Put(<<>>, LabelName, "ldap"), LabelInstance, d.Name)

\* faulty variant: the user's labels are copied last
ObjectLabelsUserLast(d) ==
    LET managed == Put(Put(Put(<<>>, LabelName, "directory"), LabelInstance, d.Name),
                       LabelManagedBy, "ldap-operator")
    IN  [k \in DOMAIN managed \cup DOMAIN d.Labels |->
            IF k \in DOMAIN d.Labels THEN d.Labels[k] ELSE managed[k]]

\* the directory's labels are copied, then the three managed keys are set
ObjectLabels(d) ==
    Put(Put(Put(d.Labels, LabelName, "directory"), LabelInstance, d.Name),
        LabelManagedBy, "ldap-operator")

statefulSetTemplate(d) ==
    [Name |-> ResourceName(d), Namespace |-> d.Namespace,
     Labels |-> ObjectLabels(d),
     Selector |-> SelectorLabels(d),
     PodLabels |-> SelectorLabels(d),
     VolumeMounts |-> MergeByName(defaultVolumeMounts, d.VolumeMounts),
     VolumeClaimTemplates |->
         MergeByName(defaultVolumeClaimTemplates, d.VolumeClaimTemplates)]

\* faulty variant: the Service selects by the labels of the objects
serviceTemplateByObjectLabels(d) ==
    [Name |-> ResourceName(d), Namespace |-> d.Namespace,
     Labels |-> ObjectLabels(d),
     Selector |-> ObjectLabels(d)]

serviceTemplate(d) ==
    [Name |-> ResourceName(d), Namespace |-> d.Namespace,
     Labels |-> ObjectLabels(d),
     Selector |-> SelectorLabels(d)]

TemplateDirectory(name, namespace, labels, claims, mounts) ==
    [Name |-> name, Namespace |-> namespace, Labels |-> labels,
     VolumeClaimTemplates |-> claims, VolumeMounts |-> mounts]

IdleTemplateIn == TemplateDirectory(<<"d", "1">>, "ns1", <<>>, <<>>, <<>>)
NotRendered == [called |-> FALSE, sts |-> <<>>, svc |-> <<>>]

\* both templates are generated for the directory
RenderTemplates ==
    /\ ~tplOut.called
    /\ tplOut' = [called |-> TRUE, sts |-> statefulSetTemplate(tplIn),
                  svc |-> serviceTemplate(tplIn)]
    /\ UNCHANGED <<rootIn, rootOut, directories, groups, lastDN, lastResolve, store,
                   last, dir, cluster, rec, objs, orec, tplIn>>

(***************************************************************************)
(* Specifications                                                          *)
(***************************************************************************)
IdleRootIn == [labels |-> <<<<"a">>>>, dir |-> NewDirectory(<<"a">>, "acme")]

InitRootDN ==
    /\ rootIn \in RootInputs
    /\ rootOut = NotCalled
    /\ directories = NoObjects
    /\ groups = NoObjects
    /\ lastDN = NoDN
    /\ lastResolve = NoResolve
    /\ dir = NoDirectory
    /\ cluster = EmptyCluster
    /\ rec = NoReconcile
    /\ objs = NoMetas
    /\ orec = NoObjectReconcile
    /\ tplIn = IdleTemplateIn
    /\ tplOut = NotRendered
    /\ store = BootstrappedStore
    /\ last = NoCall

NextRootDN == GetRootDN

\* the root DN computed for every domain within the bounds
SpecRootDN == InitRootDN /\ [][NextRootDN]_vars

Init ==
    /\ rootIn = IdleRootIn
    /\ rootOut = NotCalled
    /\ directories = NoObjects
    /\ groups = NoObjects
    /\ lastDN = NoDN
    /\ lastResolve = NoResolve
    /\ dir = NoDirectory
    /\ cluster = EmptyCluster
    /\ rec = NoReconcile
    /\ objs = NoMetas
    /\ orec = NoObjectReconcile
    /\ tplIn = IdleTemplateIn
    /\ tplOut = NotRendered
    /\ store = BootstrappedStore
    /\ last = NoCall

NextNames ==
    \/ \E n \in DirNames, d \in Domains : ApplyDirectory(n, d)
    \/ \E n \in DirNames : DeleteDirectory(n)
    \/ \E n \in GroupNames, d \in DirNames, p \in ParentRefs : ApplyGroup(n, d, p)
    \/ \E n \in GroupNames : DeleteGroup(n)
    \/ \E n \in GroupNames : GetGroupDN(n)

\* control-plane objects come and go, group DNs are computed
SpecNames == Init /\ [][NextNames]_vars

NextResolve ==
    \/ \E n \in DirNames, d \in Domains : ApplyDirectory(n, d)
    \/ \E n \in DirNames : DeleteDirectory(n)
    \/ \E n \in GroupNames, d \in DirNames, p \in ParentRefs : ApplyGroup(n, d, p)
    \/ \E n \in GroupNames : DeleteGroup(n)
    \/ \E n \in GroupNames, f \in FailAts : ResolveGroupReferences(n, f)

\* control-plane objects come and go, group references are resolved
SpecResolve == Init /\ [][NextResolve]_vars

NextClient ==
    \/ \E e \in Entries, salt \in Salts : CallCreateOrUpdateEntry(e, salt)
    \/ \E dn \in ClientDNs, recursive \in BOOLEAN : CallDeleteEntry(dn, recursive)
    \/ \E dn \in ClientDNs : CallGetEntry(dn)

\* calls on the directory client against the remote directory
SpecClient == Init /\ [][NextClient]_vars

\* the directory reconciler among the other users of its objects
NextReconcile ==
    \/ \E f \in SUBSET {OtherFinalizer} : CreateDirectoryObject(f)
    \/ UpdateDirectorySpec
    \/ DeleteDirectoryObject
    \/ ReleaseOtherFinalizer
    \/ \E b \in BOOLEAN : SetCertificateSecret(b)
    \/ \E b \in BOOLEAN : SetStatefulSetReady(b)
    \/ GarbageCollect
    \/ \E fail \in FailPoints, statusFails \in BOOLEAN, pw \in PasswordDraws :
          Reconcile(fail, statusFails, pw)

SpecReconcile == Init /\ [][NextReconcile]_vars

\* one generation of a directory, from its creation to Ready and its end
NextReadiness ==
    \/ CreateDirectoryObject({})
    \/ DeleteDirectoryObject
    \/ \E b \in BOOLEAN : SetCertificateSecret(b)
    \/ \E b \in BOOLEAN : SetStatefulSetReady(b)
    \/ GarbageCollect
    \/ \E fail \in FailPoints, statusFails \in BOOLEAN, pw \in PasswordDraws :
          Reconcile(fail, statusFails, pw)

\* retries are fair: a reconcile in which every call succeeds keeps coming
SpecReadinessFair ==
    /\ Init
    /\ [][NextReadiness]_vars
    /\ WF_vars(\E pw \in PasswordDraws : Reconcile("none", FALSE, pw))

\* a directory, a parent group and its child, each reconciled on its own
NextObjects ==
    \/ \E b \in BOOLEAN : SetDirectoryObject("d1", b)
    \/ CreateGroupObject("g2", "d1", <<>>)
    \/ CreateGroupObject("g1", "d1", <<Ref(KindGroup, "g2")>>)
    \/ \E n \in ObjectNames : DeleteGroupObject(n)
    \/ \E n \in ObjectNames : ObjectReconcileStart(n)
    \/ \E n \in ObjectNames : ObjectReconcileApply(n)

\* the work queue is fair: every object's reconcile keeps being retried
SpecObjectsFair ==
    /\ Init
    /\ [][NextObjects]_vars
    /\ \A n \in ObjectNames :
          WF_vars(ObjectReconcileStart(n)) /\ WF_vars(ObjectReconcileApply(n))

\* the templates of directories with every choice of user labels
InitLabels ==
    /\ rootIn = IdleRootIn
    /\ rootOut = NotCalled
    /\ directories = NoObjects
    /\ groups = NoObjects
    /\ lastDN = NoDN
    /\ lastResolve = NoResolve
    /\ dir = NoDirectory
    /\ cluster = EmptyCluster
    /\ rec = NoReconcile
    /\ objs = NoMetas
    /\ orec = NoObjectReconcile
    /\ tplIn \in {TemplateDirectory(n, ns, l, <<>>, <<>>) :
                      n \in TemplateNames, ns \in Namespaces, l \in UserLabels}
    /\ tplOut = NotRendered
    /\ store = BootstrappedStore
    /\ last = NoCall

\* the templates of a directory with every choice of user volumes
InitVolumes ==
    /\ rootIn = IdleRootIn
    /\ rootOut = NotCalled
    /\ directories = NoObjects
    /\ groups = NoObjects
    /\ lastDN = NoDN
    /\ lastResolve = NoResolve
    /\ dir = NoDirectory
    /\ cluster = EmptyCluster
    /\ rec = NoReconcile
    /\ objs = NoMetas
    /\ orec = NoObjectReconcile
    /\ tplIn \in {TemplateDirectory(<<"d", "1">>, "ns1", <<>>, c, m) :
                      c \in ListsOf(UserClaims), m \in ListsOf(UserMounts)}
    /\ tplOut = NotRendered
    /\ store = BootstrappedStore
    /\ last = NoCall

NextTemplates == RenderTemplates

SpecLabels == InitLabels /\ [][NextTemplates]_vars
SpecVolumes == InitVolumes /\ [][NextTemplates]_vars

Next ==
    \/ NextTemplates
    \/ NextRootDN \/ NextNames \/ NextResolve \/ NextClient \/ NextReconcile
    \/ NextReadiness \/ NextObjects

Spec == Init /\ [][Next]_vars

(***************************************************************************)
(* Properties of the directory client (SpecClient)                         *)
(***************************************************************************)
IsUpsert(l) == l.op = "CreateOrUpdateEntry"
IsDelete(l) == l.op = "DeleteEntry"

\* the entry stored at e's DN has exactly the managed attributes of e
\* (userPassword: one hash of e's password, under some salt)
StoredMatches(st, e) ==
    LET dn == e.DistinguishedName IN
    /\ dn \in DOMAIN st
    /\ \A a \in ManagedAttrs \ {"userPassword"} : st[dn][a] = ToAttributes(e, 1)[a]
    /\ IF e.Password = "" THEN st[dn]["userPassword"] = {}
       ELSE \E salt \in Salts : st[dn]["userPassword"] = {Hash(e.Password, salt)}

\* the entries stored under dn
Descendants(st, dn) == {d \in DOMAIN st : d # dn /\ HasSuffix(d, <<",">> \o dn)}

\* position of x in the sequence q, 0 if it is not in it
Position(q, x) == IF \E i \in DOMAIN q : q[i] = x
                  THEN CHOOSE i \in DOMAIN q : q[i] = x ELSE 0

\* C1: two calls of CreateOrUpdateEntry in a row with the same entry, the first
\* on a DN with no entry (and accepted by the server): the first returns true,
\* the second returns false without error, and after each of the two calls the
\* stored entry has exactly the managed attributes of the entry.
C1_UpsertIdempotent ==
    [][(/\ IsUpsert(last) /\ IsUpsert(last')
        /\ last'.entry = last.entry
        /\ last.dn \notin DOMAIN last.before
        /\ last.ok)
       => (/\ last.created
           /\ last'.ok /\ ~last'.created
           /\ StoredMatches(store, last.entry)
           /\ StoredMatches(store', last.entry)
           /\ store' = store)]_vars

\* C1 witness: a second call with the entry that the stored entry came from
C1_Witness ==
    /\ IsUpsert(last) /\ last.ok /\ ~last.created
    /\ last.dn \in DOMAIN last.before
    /\ StoredMatches(last.before, last.entry)
    /\ last.entry.Password # ""
    /\ store = last.before

\* C2: CreateOrUpdateEntry returns true exactly when no entry existed at the DN
\* and the call created it; when an entry existed it returns false, also when
\* the call changed attributes of the stored entry.
C2_ReturnsCreated ==
    IsUpsert(last) =>
        /\ last.created <=> (last.dn \notin DOMAIN last.before /\ last.dn \in DOMAIN store)
        /\ last.dn \in DOMAIN last.before => ~last.created

\* C2 witness: an update that changed the stored entry and returned false
C2_Witness ==
    /\ IsUpsert(last) /\ last.ok /\ ~last.created
    /\ last.dn \in DOMAIN last.before
    /\ store[last.dn] # last.before[last.dn]

OptionalAttrs == {"description", "mail"}

\* C3: an update whose entry lacks an optional attribute (description, mail)
\* that the stored entry had: afterwards the attribute is absent from the
\* stored entry, neither at its old value nor an empty string.
C3_AttributeRemoved ==
    \A a \in OptionalAttrs :
        (/\ IsUpsert(last) /\ last.ok
         /\ last.dn \in DOMAIN last.before
         /\ last.before[last.dn][a] # {}
         /\ ToAttributes(last.entry, 1)[a] \in {{}, {""}})
        => /\ store[last.dn][a] = {}
           /\ GetEntry(store, last.dn).attrs[a] = {}

\* C3 witness: the e-mail address of a stored user was removed by an update
C3_Witness ==
    /\ IsUpsert(last) /\ last.ok
    /\ last.dn \in DOMAIN last.before
    /\ last.before[last.dn]["mail"] # {}
    /\ last.entry.Email = ""
    /\ store[last.dn]["mail"] = {}

\* C4: after every successful CreateOrUpdateEntry, whatever was stored before,
\* GetEntry of the DN returns the attributes of that call: attributes only in
\* the desired entry were added, attributes only in the stored entry were
\* removed, and member holds exactly the desired values.
C4_UpsertConverges ==
    (IsUpsert(last) /\ last.ok) =>
        /\ GetEntry(store, last.dn).ok
        /\ StoredMatches(store, last.entry)
        /\ GetEntry(store, last.dn).attrs["member"] = Range(last.entry.Members)
        /\ \A a \in ManagedAttrs \ {"userPassword"} :
              GetEntry(store, last.dn).attrs[a] = ToAttributes(last.entry, 1)[a]

\* C4 witness: a group update that dropped one member and added another, and
\* added a description
C4_Witness ==
    /\ IsUpsert(last) /\ last.ok
    /\ last.dn \in DOMAIN last.before
    /\ last.before[last.dn]["member"] = {"cn=admin"}
    /\ last.before[last.dn]["description"] = {}
    /\ store[last.dn]["member"] = {"cn=other"}
    /\ store[last.dn]["description"] # {}

\* C5: DeleteEntry(dn, recursive = true) on an entry with descendants succeeds,
\* deletes every descendant before the entry (and every entry after the entries
\* under it), and afterwards GetEntry fails for dn and for every DN under it.
C5_RecursiveDelete ==
    (/\ IsDelete(last) /\ last.recursive
     /\ last.dn \in DOMAIN last.before
     /\ Descendants(last.before, last.dn) # {})
    => /\ last.ok
       /\ Position(last.order, last.dn) = Len(last.order)
       /\ \A d \in Descendants(last.before, last.dn) :
            /\ Position(last.order, d) > 0
            /\ Position(last.order, d) < Position(last.order, last.dn)
            /\ \A c \in Descendants(last.before, d) :
                  Position(last.order, c) < Position(last.order, d)
            /\ ~GetEntry(store, d).ok
       /\ ~GetEntry(store, last.dn).ok

\* C5 witness: a recursive delete of an entry with a child and a grandchild
C5_Witness ==
    /\ IsDelete(last) /\ last.recursive /\ last.ok
    /\ last.dn = OuDN
    /\ Descendants(last.before, OuDN) = {SubOuDN, UserDN}
    /\ last.order = <<UserDN, SubOuDN, OuDN>>

\* C6: DeleteEntry(dn, recursive = false) on a stored entry: with no children
\* it succeeds and GetEntry(dn) fails afterwards; with a child it returns an
\* error and the entry and all its children stay stored unchanged.
C6_NonRecursiveDelete ==
    (/\ IsDelete(last) /\ ~last.recursive
     /\ last.dn \in DOMAIN last.before)
    => IF Descendants(last.before, last.dn) = {}
       THEN last.ok /\ ~GetEntry(store, last.dn).ok
       ELSE ~last.ok /\ store = last.before

\* C6 witness: a non-recursive delete refused because the entry has a child
C6_Witness ==
    /\ IsDelete(last) /\ ~last.recursive /\ ~last.ok
    /\ Descendants(last.before, last.dn) # {}
    /\ last.dn \in DOMAIN store

\* C7: an update of a user stored with a password, with the same password:
\* userPassword is the same value after the call as before, whatever salt a
\* new hash would get and whatever else the call changed.
C7_PasswordStable ==
    (/\ IsUpsert(last) /\ last.ok
     /\ last.dn \in DOMAIN last.before
     /\ last.entry.Password # ""
     /\ \E h \in last.before[last.dn]["userPassword"] : Verify(h, last.entry.Password))
    => store[last.dn]["userPassword"] = last.before[last.dn]["userPassword"]

\* C7 witness: the e-mail address was removed, the password was given again
C7_Witness ==
    /\ IsUpsert(last) /\ last.ok
    /\ last.dn \in DOMAIN last.before
    /\ last.entry.Password = "changeme"
    /\ last.before[last.dn]["userPassword"] = {Hash("changeme", 1)}
    /\ store[last.dn]["userPassword"] = {Hash("changeme", 1)}
    /\ last.before[last.dn]["mail"] # {}
    /\ store[last.dn]["mail"] = {}

(***************************************************************************)
(* Properties of the distinguished names (SpecRootDN, SpecNames)           *)
(***************************************************************************)
RECURSIVE DcList(_, _)
\* "dc=l_i,dc=l_(i+1),...,dc=l_n", written out label by label
DcList(labels, i) ==
    IF i > Len(labels) THEN <<>>
    ELSE (IF i > 1 THEN <<",">> ELSE <<>>)
         \o <<"d", "c", "=">> \o labels[i] \o DcList(labels, i + 1)

NonEmptyLabels(labels) == \A i \in DOMAIN labels : labels[i] # <<>>

\* the number of commas of a string
Commas(str) == Cardinality({i \in DOMAIN str : str[i] = ","})

\* C8: for a domain of n >= 1 non-empty labels l1.l2...ln, the directory's
\* GetDistinguishedName returns "dc=l1,dc=l2,...,dc=ln" and no error: one dc
\* component per label, in the order of the labels, whatever the other fields
\* of the directory are.
C8_RootDN ==
    (rootOut.called /\ NonEmptyLabels(rootIn.labels)) =>
        /\ rootOut.err = NoError
        /\ rootOut.dn = DcList(rootIn.labels, 1)
        /\ Commas(rootOut.dn) = Len(rootIn.labels) - 1

\* C8 witness: the DN of a directory whose domain has three non-empty labels
C8_Witness ==
    /\ rootOut.called
    /\ rootIn.labels = <<<<"a", "b">>, <<"b">>, <<"a">>>>
    /\ rootIn.dir.Spec.Organization = "initech"
    /\ rootOut.dn = <<"d", "c", "=", "a", "b", ",", "d", "c", "=", "b", ",",
                       "d", "c", "=", "a">>

RECURSIVE ChainOf(_, _)
\* the groups from n up its parent references, n first, while the references
\* name stored groups not met before
ChainOf(n, seen) ==
    IF n \notin DOMAIN groups \/ n \in seen THEN <<>>
    ELSE LET p == groups[n].Spec.ParentRef IN
         IF p # <<>> /\ p[1].Kind = KindGroup
         THEN <<n>> \o ChainOf(p[1].Name, seen \cup {n})
         ELSE <<n>>

\* the chain of n is g0..gk: every parent exists and is a group, gk has no
\* parent reference and its directory exists
AcyclicChain(n) ==
    LET chain == ChainOf(n, {})
        top == chain[Len(chain)]
    IN  /\ chain # <<>>
        /\ \A i \in 1..(Len(chain) - 1) :
              groups[chain[i]].Spec.ParentRef = <<Ref(KindGroup, chain[i + 1])>>
        /\ groups[top].Spec.ParentRef = <<>>
        /\ groups[top].Spec.DirectoryRef \in DOMAIN directories

RECURSIVE CnList(_, _)
\* "cn=<name of chain[i]>,cn=<name of chain[i+1]>,...," up to the end of the chain
CnList(chain, i) ==
    IF i > Len(chain) THEN <<>>
    ELSE <<"c", "n", "=">> \o groups[chain[i]].Spec.Name \o <<",">> \o CnList(chain, i + 1)

\* the suffix of the directory at the end of n's chain
ChainSuffix(n) ==
    LET chain == ChainOf(n, {})
    IN  DirectoryDN(directories[groups[chain[Len(chain)]].Spec.DirectoryRef])

\* C9: for a group g0 with the acyclic parent chain g1..gk (k >= 0) ending at a
\* directory with suffix S, GetDistinguishedName returns no error and
\* "cn=<g0>,cn=<g1>,...,cn=<gk>,S": the group's own component first, then the
\* parent's DN, the root suffix last.
C9_GroupDN ==
    (lastDN.called /\ AcyclicChain(lastDN.obj)) =>
        /\ lastDN.err = NoError
        /\ lastDN.dn = CnList(ChainOf(lastDN.obj, {}), 1) \o ChainSuffix(lastDN.obj)
        /\ HasSuffix(lastDN.dn, <<",">> \o ChainSuffix(lastDN.obj))

\* C9 witness: a group under a parent under a grandparent under "dc=b,dc=a"
C9_Witness ==
    /\ lastDN.called /\ AcyclicChain(lastDN.obj)
    /\ Len(ChainOf(lastDN.obj, {})) = 3
    /\ lastDN.dn = <<"c", "n", "=", "x", ",", "c", "n", "=", "y", ",",
                      "c", "n", "=", "x", ",", "d", "c", "=", "b", ",", "d", "c", "=", "a">>

\* C10: a DN computed for a group (no error) ends with the suffix of the
\* directory that the group's own directory reference names, also when the
\* group has a parent reference.
C10_SingleRoot ==
    (/\ lastDN.called /\ lastDN.err = NoError
     /\ groups[lastDN.obj].Spec.DirectoryRef \in DOMAIN directories)
    => HasSuffix(lastDN.dn,
                 <<",">> \o DirectoryDN(directories[groups[lastDN.obj].Spec.DirectoryRef]))

\* C11: computing the DN of a group whose own directory reference names no
\* stored directory returns an error, whether or not a parent reference is set.
C11_DirectoryMandatory ==
    (/\ lastDN.called
     /\ groups[lastDN.obj].Spec.DirectoryRef \notin DOMAIN directories)
    => lastDN.err # NoError

RECURSIVE Ancestor(_, _)
\* the group k parent references up from n; "" when the walk leaves the groups
Ancestor(n, k) ==
    IF k = 0 THEN n
    ELSE IF n \notin DOMAIN groups THEN ""
    ELSE LET p == groups[n].Spec.ParentRef IN
         IF p # <<>> /\ p[1].Kind = KindGroup THEN Ancestor(p[1].Name, k - 1) ELSE ""

\* the parent references lead from n back to n
OnCycle(n) == \E k \in 1..Cardinality(GroupNames) : Ancestor(n, k) = n

\* C12: computing the DN of a group on a cycle of parent references (a group
\* that is its own parent included) ends with the error "cyclic reference".
C12_CycleGuard ==
    (lastDN.called /\ OnCycle(lastDN.obj)) => lastDN.err = "cyclic reference"

(***************************************************************************)
(* Properties of reference resolution (SpecResolve)                        *)
(***************************************************************************)
\* the object a reference names is stored
TargetExists(ref) ==
    \/ ref.Kind = KindDirectory /\ ref.Name \in DOMAIN directories
    \/ ref.Kind = KindGroup /\ ref.Name \in DOMAIN groups
    \/ ref.Kind = KindOther /\ ref.Name \in OtherNames

\* C13: ResolveReferences of a group, the backend answering: (false, nil) when
\* the directory is missing or a parent reference is set and the parent is
\* missing; (true, nil) exactly when the directory exists and the parent, if a
\* reference to one is set, exists.  A lookup whose backend fails is returned
\* as an error.
C13_ResolveOutcome ==
    lastResolve.called =>
        LET g == groups[lastResolve.obj]
            dirExists == g.Spec.DirectoryRef \in DOMAIN directories
            parentSet == g.Spec.ParentRef # <<>>
            parentExists == parentSet /\ TargetExists(g.Spec.ParentRef[1])
            lookupFailed ==
                \/ lastResolve.failAt = LookupDirectory
                \/ lastResolve.failAt = LookupParent /\ dirExists /\ parentSet
        IN  /\ lookupFailed => (lastResolve.err # NoError /\ ~lastResolve.ok)
            /\ ~lookupFailed =>
                  /\ lastResolve.err = NoError
                  /\ lastResolve.ok <=> (dirExists /\ (parentSet => parentExists))

\* C13 witness: the directory exists, the parent named by the reference does not
C13_Witness ==
    /\ lastResolve.called /\ lastResolve.failAt = 0
    /\ groups[lastResolve.obj].Spec.DirectoryRef \in DOMAIN directories
    /\ groups[lastResolve.obj].Spec.ParentRef # <<>>
    /\ ~TargetExists(groups[lastResolve.obj].Spec.ParentRef[1])
    /\ ~lastResolve.ok /\ lastResolve.err = NoError

\* C14: when the parent reference names a stored object that cannot produce a
\* DN, ResolveReferences reports an error: not resolved, not unresolved.
C14_WrongKindIsError ==
    (/\ lastResolve.called /\ lastResolve.failAt = 0
     /\ groups[lastResolve.obj].Spec.DirectoryRef \in DOMAIN directories
     /\ groups[lastResolve.obj].Spec.ParentRef # <<>>
     /\ TargetExists(groups[lastResolve.obj].Spec.ParentRef[1])
     /\ ~IsNamedLDAPObject(groups[lastResolve.obj].Spec.ParentRef[1].Kind))
    => (~lastResolve.ok /\ lastResolve.err # NoError)

(***************************************************************************)
(* Properties of the directory reconciler (SpecReconcile)                  *)
(***************************************************************************)
Unresolved == [ok |-> FALSE, err |-> NoError]
Resolved == [ok |-> TRUE, err |-> NoError]
LookupFailed == [ok |-> FALSE, err |-> "lookup failed"]

\* requests that create or update what the directory owns
Downstream == {"createSecret", "applySts", "applySvc"}

Sent(op) == \E i \in DOMAIN rec.trace : rec.trace[i].op = op
Accepted(op) == \E i \in DOMAIN rec.trace : rec.trace[i] = [op |-> op, ok |-> TRUE]
Rejected(op) == \E i \in DOMAIN rec.trace : rec.trace[i] = [op |-> op, ok |-> FALSE]
Emitted(reason) == \E i \in DOMAIN rec.events : rec.events[i].reason = reason

NoDownstream ==
    /\ \A op \in Downstream : ~Sent(op)
    /\ cluster = rec.before.cluster

\* the latest Reconcile found the references of a live object unresolved
ReconciledUnresolved ==
    /\ rec.called /\ rec.before.dir.exists /\ ~rec.before.dir.deleting
    /\ rec.refs = <<Unresolved>>

\* C15 as stated: a reconcile of a non-deleting object whose references are
\* unresolved sets phase Pending, emits NotReady, returns no error, asks for a
\* retry after 5 seconds, and creates no secret, StatefulSet or Service.
C15_UnresolvedIsPending ==
    ReconciledUnresolved =>
        /\ dir.status.phase = PhasePending
        /\ Emitted("NotReady")
        /\ rec.err = NoError
        /\ rec.requeueAfter = 5
        /\ NoDownstream

\* C15 amended: with unresolved references NotReady is emitted and nothing
\* downstream is created; when the status write is accepted the phase is
\* Pending, no error is returned and the retry is after 5 seconds; when it is
\* rejected the status stays as it was and the error is returned with no
\* retry-after.
C15_UnresolvedIsPendingIfWritten ==
    ReconciledUnresolved =>
        /\ Emitted("NotReady")
        /\ NoDownstream
        /\ Accepted("status") =>
              /\ dir.status.phase = PhasePending
              /\ rec.err = NoError
              /\ rec.requeueAfter = 5
        /\ ~Accepted("status") =>
              /\ dir.status = rec.before.dir.status
              /\ rec.err = "failed to mark as pending"
              /\ rec.requeueAfter = 0

\* C15 witness: an unresolved reference left the directory Pending, to be
\* retried, with nothing created
C15_Witness ==
    /\ ReconciledUnresolved
    /\ Accepted("status") /\ dir.status.phase = PhasePending
    /\ rec.requeueAfter = 5
    /\ ~cluster.adminSecret.exists

\* the latest Reconcile got an error from ResolveReferences
ReconciledResolveError ==
    /\ rec.called /\ rec.before.dir.exists
    /\ Len(rec.refs) = 1 /\ rec.refs[1].err # NoError

FailedConditionCarries(cause) ==
    /\ PhaseFailed \in DOMAIN dir.status.conditions
    /\ dir.status.conditions[PhaseFailed].status = "True"
    /\ dir.status.conditions[PhaseFailed].message = cause

\* C16 as stated: a reconcile whose reference resolution returns an error sets
\* phase Failed with a Failed condition carrying the cause, emits Failed,
\* returns the error with no retry-after, and creates or updates nothing
\* downstream.
C16_ResolveErrorIsFailed ==
    ReconciledResolveError =>
        /\ dir.status.phase = PhaseFailed
        /\ FailedConditionCarries(rec.err)
        /\ Emitted("Failed")
        /\ rec.err = "failed to resolve references"
        /\ rec.requeueAfter = 0
        /\ NoDownstream

\* C16 amended: on a resolution error Failed is emitted, the error is returned
\* with no retry-after and nothing downstream is written; the phase is Failed
\* with a Failed condition carrying the cause when the status write is
\* accepted, and the status stays as it was when it is rejected.
C16_ResolveErrorIsFailedIfWritten ==
    ReconciledResolveError =>
        /\ Emitted("Failed")
        /\ rec.err = "failed to resolve references"
        /\ rec.requeueAfter = 0
        /\ NoDownstream
        /\ Accepted("status") =>
              /\ dir.status.phase = PhaseFailed
              /\ dir.status.observedGeneration = dir.generation
              /\ FailedConditionCarries(rec.err)
        /\ ~Accepted("status") => dir.status = rec.before.dir.status

\* C16 witness: a failed lookup of the certificate secret left the directory
\* Failed with the cause in its condition
C16_Witness ==
    /\ ReconciledResolveError
    /\ dir.status.phase = PhaseFailed
    /\ FailedConditionCarries("failed to resolve references")
    /\ rec.before.dir.status.phase # PhaseFailed

\* the finalizer was on the stored object when request i was sent
FinalizerPresentAt(i) ==
    \/ FinalizerName \in rec.before.dir.finalizers
    \/ \E j \in 1..(i - 1) : rec.trace[j] = [op |-> "addFinalizer", ok |-> TRUE]

\* C17: in a reconcile of a non-deleting object the finalizer is on the stored
\* object before the first downstream create or update; a failed attach
\* returns an error and leaves downstream untouched; an object that has the
\* finalizer is not patched.
C17_FinalizerBeforeMutation ==
    (rec.called /\ rec.before.dir.exists /\ ~rec.before.dir.deleting) =>
        /\ \A i \in DOMAIN rec.trace :
              rec.trace[i].op \in Downstream => FinalizerPresentAt(i)
        /\ cluster # rec.before.cluster => FinalizerName \in dir.finalizers
        /\ Rejected("addFinalizer") => (rec.err # NoError /\ NoDownstream)
        /\ FinalizerName \in rec.before.dir.finalizers => ~Sent("addFinalizer")

\* C17 witness: a first reconcile attached the finalizer and then created
\* the admin password secret
C17_Witness ==
    /\ rec.called /\ ~rec.before.dir.deleting
    /\ FinalizerName \notin rec.before.dir.finalizers
    /\ Len(rec.trace) >= 2
    /\ rec.trace[1] = [op |-> "addFinalizer", ok |-> TRUE]
    /\ rec.trace[2] = [op |-> "createSecret", ok |-> TRUE]

\* C18: the deletion marker is examined first, so a reconcile of an object
\* that carries a deletion marker sends no request to add the finalizer.
C18_DeletionCheckedFirst ==
    (rec.called /\ rec.before.dir.exists /\ rec.before.dir.deleting) =>
        ~Sent("addFinalizer")

\* the latest Reconcile ran to its end: references resolved, downstream
\* resources applied, StatefulSet ready, nil returned
CompletedSuccessfully ==
    /\ rec.called /\ rec.before.dir.exists /\ dir.exists
    /\ rec.refs = <<Resolved>>
    /\ Accepted("applySts") /\ Accepted("applySvc")
    /\ isStatefulSetReady(cluster.sts)
    /\ rec.err = NoError /\ rec.requeueAfter = 0

\* C19: after every reconcile that completes successfully the phase is Ready
\* and status.observedGeneration equals metadata.generation, also when the
\* phase was Ready before and the generation has changed since.
C19_ObservedGenerationOnSuccess ==
    CompletedSuccessfully =>
        /\ dir.status.phase = PhaseReady
        /\ dir.status.observedGeneration = dir.generation

\* C20: whenever a reconcile of a stored object returns an error, the status
\* after it has phase Failed and a Failed condition carrying the cause.
C20_EveryFailureVisible ==
    (rec.called /\ rec.before.dir.exists /\ dir.exists
     /\ rec.err # NoError /\ rec.err # "failed to get directory") =>
        /\ dir.status.phase = PhaseFailed
        /\ FailedConditionCarries(rec.err)

\* C21: the admin password secret is created only by a reconcile that found
\* it absent, with a generated password of 32 characters; a reconcile that
\* finds the secret leaves its data as it is.
C21_AdminPasswordOnce ==
    rec.called =>
        /\ Sent("createSecret") => ~rec.before.cluster.adminSecret.exists
        /\ Accepted("createSecret") =>
              /\ cluster.adminSecret.exists
              /\ cluster.adminSecret.length = 32
              /\ cluster.adminSecret.data \in GeneratedPasswords
        /\ rec.before.cluster.adminSecret.exists =>
              cluster.adminSecret = rec.before.cluster.adminSecret
        /\ (~rec.before.cluster.adminSecret.exists /\ cluster.adminSecret.exists) =>
              Accepted("createSecret")

\* C21 witness: a reconcile that found the secret went on to apply the
\* StatefulSet and left the password alone
C21_Witness ==
    /\ rec.called
    /\ rec.before.cluster.adminSecret.exists
    /\ Accepted("applySts")
    /\ cluster.adminSecret.data = rec.before.cluster.adminSecret.data
    /\ cluster.adminSecret.length = 32

\* the latest Reconcile changed the phase of the stored object
PhaseChanged(from, to) ==
    /\ rec.called /\ rec.before.dir.exists /\ dir.exists
    /\ rec.before.dir.status.phase = from
    /\ dir.status.phase = to
    /\ from # to

\* C22 as stated: the phase changes only along Pending -> Ready,
\* Pending -> Failed and Ready -> Pending (and from unset, where it starts).
C22_PhaseTransitions ==
    \A from, to \in {PhaseNone, PhasePending, PhaseReady, PhaseFailed} :
        PhaseChanged(from, to) =>
            \/ from = PhaseNone
            \/ <<from, to>> \in {<<PhasePending, PhaseReady>>,
                                  <<PhasePending, PhaseFailed>>,
                                  <<PhaseReady, PhasePending>>}

\* C22 amended: a reconcile changes the phase only by an accepted status
\* write and never back to unset: to Pending with no error and a retry after
\* 5 seconds, to Failed with the error returned, to Ready with no error and
\* no retry; Ready -> Failed and Failed -> Ready are among the changes.
C22_PhaseFollowsOutcome ==
    \A from, to \in {PhaseNone, PhasePending, PhaseReady, PhaseFailed} :
        PhaseChanged(from, to) =>
            /\ Accepted("status")
            /\ to # PhaseNone
            /\ to = PhasePending => (rec.err = NoError /\ rec.requeueAfter = 5)
            /\ to = PhaseFailed => (rec.err # NoError /\ rec.requeueAfter = 0)
            /\ to = PhaseReady => (rec.err = NoError /\ rec.requeueAfter = 0)

\* C22 witness: an apply failure took a Ready directory straight to Failed
C22_Witness ==
    /\ PhaseChanged(PhaseReady, PhaseFailed)
    /\ rec.err = "failed to reconcile statefulset"

\* C28: a reconcile of a directory that carries a deletion marker removes
\* the finalizer if present and returns success with no retry; it writes
\* neither downstream resources nor the status; when removing the finalizer
\* fails the error is returned and the finalizer stays.
C28_DeletionPathTerminal ==
    (rec.called /\ rec.before.dir.exists /\ rec.before.dir.deleting) =>
        /\ NoDownstream
        /\ ~Sent("status")
        /\ dir.exists => dir.status = rec.before.dir.status
        /\ Rejected("removeFinalizer") =>
              (rec.err # NoError /\ FinalizerName \in dir.finalizers)
        /\ ~Rejected("removeFinalizer") =>
              /\ rec.err = NoError /\ rec.requeueAfter = 0
              /\ dir.exists => FinalizerName \notin dir.finalizers

ApplyErrors ==
    {"failed to generate statefulset template", "failed to reconcile statefulset",
     "failed to generate service template", "failed to reconcile service",
     "failed to check if statefulset is ready"}

\* the latest Reconcile failed at a StatefulSet or Service step and ran
\* nothing after marking the failure
ApplyFailureStopsThere ==
    /\ Emitted("Failed")
    /\ rec.requeueAfter = 0
    /\ rec.trace[Len(rec.trace)].op = "status"
    /\ \A i \in 1..(Len(rec.trace) - 1) : rec.trace[i].op # "status"
    /\ ~Emitted("Pending") /\ ~Emitted("Created")
    /\ rec.err = "failed to generate statefulset template" =>
          (~Sent("applySts") /\ ~Sent("applySvc"))
    /\ rec.err = "failed to reconcile statefulset" =>
          (Rejected("applySts") /\ ~Sent("applySvc") /\ cluster.sts = rec.before.cluster.sts)
    /\ rec.err = "failed to generate service template" => ~Sent("applySvc")
    /\ rec.err = "failed to reconcile service" =>
          (Rejected("applySvc") /\ cluster.svc = rec.before.cluster.svc)

\* C29 as stated: a failure of a StatefulSet or Service step emits Failed,
\* sets phase Failed with the cause as condition message, returns the error
\* and runs none of the later steps.
C29_ApplyFailureIsFailed ==
    (rec.called /\ rec.err \in ApplyErrors) =>
        /\ ApplyFailureStopsThere
        /\ dir.status.phase = PhaseFailed
        /\ FailedConditionCarries(rec.err)

\* C29 amended: such a failure emits Failed, returns the error and runs none
\* of the later steps; the phase is Failed with the cause as condition
\* message when the status write is accepted, and the status stays as it
\* was when it is rejected.
C29_ApplyFailureIsFailedIfWritten ==
    (rec.called /\ rec.err \in ApplyErrors) =>
        /\ ApplyFailureStopsThere
        /\ Accepted("status") =>
              /\ dir.status.phase = PhaseFailed
              /\ dir.status.observedGeneration = dir.generation
              /\ FailedConditionCarries(rec.err)
        /\ ~Accepted("status") => dir.status = rec.before.dir.status

\* C29 witness: the Service could not be applied after the StatefulSet was,
\* and the directory is Failed with that cause
C29_Witness ==
    /\ rec.called /\ rec.err = "failed to reconcile service"
    /\ Accepted("applySts") /\ Rejected("applySvc")
    /\ dir.status.phase = PhaseFailed
    /\ FailedConditionCarries("failed to reconcile service")

\* the latest Reconcile marked the directory Ready
MarkedReady == rec.called /\ Emitted("Created") /\ Accepted("status")

\* the latest Reconcile looked at the StatefulSet and found it not ready
ObservedNotReady ==
    /\ rec.called /\ Accepted("applySvc")
    /\ rec.err # "failed to check if statefulset is ready"
    /\ ~isStatefulSetReady(cluster.sts)

\* the directory stays, its certificate secret exists, its StatefulSet is ready
ReadyToServe ==
    /\ dir.exists /\ ~dir.deleting
    /\ cluster.certSecret
    /\ isStatefulSetReady(cluster.sts)

\* C30 as stated: Ready is marked only in an invocation that saw the
\* StatefulSet ready; while it is not ready each invocation sets Pending and
\* asks for a retry after 5 seconds with no error; once the certificate secret
\* exists and the StatefulSet stays ready the directory gets Ready.
C30_ReadinessGate ==
    /\ [](MarkedReady => isStatefulSetReady(cluster.sts))
    /\ [](ObservedNotReady =>
            /\ dir.status.phase = PhasePending
            /\ rec.err = NoError
            /\ rec.requeueAfter = 5)
    /\ (<>[]ReadyToServe => []<>(dir.status.phase = PhaseReady))

\* C30 amended: as above, but while the StatefulSet is not ready an
\* invocation emits Pending and, when the status write is accepted, sets
\* phase Pending and asks for a retry after 5 seconds with no error; when the
\* write is rejected it returns that error and the status stays as it was.
C30_ReadinessGateIfWritten ==
    /\ [](MarkedReady =>
            (isStatefulSetReady(cluster.sts) /\ dir.status.phase = PhaseReady))
    /\ [](ObservedNotReady =>
            /\ Emitted("Pending")
            /\ Accepted("status") =>
                  /\ dir.status.phase = PhasePending
                  /\ rec.err = NoError
                  /\ rec.requeueAfter = 5
            /\ ~Accepted("status") =>
                  /\ dir.status = rec.before.dir.status
                  /\ rec.err = "failed to mark as pending"
                  /\ rec.requeueAfter = 0)
    /\ (<>[]ReadyToServe => []<>(dir.status.phase = PhaseReady))

\* C30 witness: a directory that waited as Pending was marked Ready by the
\* reconcile that found the StatefulSet ready
C30_Witness ==
    /\ MarkedReady
    /\ rec.before.dir.status.phase = PhasePending
    /\ dir.status.phase = PhaseReady
    /\ isStatefulSetReady(cluster.sts)

\* the latest Reconcile wrote the status and left the given phase
Marked(phase) == rec.called /\ Accepted("status") /\ dir.status.phase = phase

C31_WitnessPendingAgain ==
    /\ Marked(PhasePending) /\ rec.before.dir.status.phase = PhasePending
    /\ Emitted("Pending")

ConditionTrue(type) ==
    type \in DOMAIN dir.status.conditions /\ dir.status.conditions[type].status = "True"

\* C32: the condition of the current phase is True and no condition of
\* another phase is True.
C32_ConditionsAgreeWithPhase ==
    dir.exists /\ dir.status.phase # PhaseNone =>
        \A type \in {PhasePending, PhaseReady, PhaseFailed} :
            ConditionTrue(type) <=> type = dir.status.phase

\* C33: observedGeneration never exceeds metadata.generation, never goes
\* down while the object lives, and an accepted status write of the
\* reconciler leaves it equal to the generation of the object.
C33_ObservedGenerationBounds ==
    /\ [](dir.status.observedGeneration <= dir.generation)
    /\ [](rec.called /\ Accepted("status") /\ dir.exists =>
            /\ dir.status.observedGeneration = dir.generation
            /\ dir.generation = rec.before.dir.generation)
    /\ [][dir.exists /\ dir'.exists =>
            dir'.status.observedGeneration >= dir.status.observedGeneration]_vars

\* a status write caught up with a generation bumped since the last write
C33_Witness ==
    /\ rec.called /\ Accepted("status") /\ dir.exists
    /\ rec.before.dir.status.observedGeneration = 1
    /\ dir.status.observedGeneration = 2

\* the latest Reconcile sent no request, emitted nothing and changed nothing
NoEffect ==
    /\ rec.trace = <<>> /\ rec.events = <<>>
    /\ dir = rec.before.dir /\ cluster = rec.before.cluster

\* C35: a Reconcile whose object is not found returns success with no retry
\* and has no effect; a Reconcile whose read fails otherwise returns that
\* error and has no effect.
C35_MissingObjectIsNoOp ==
    /\ [](rec.called /\ ~rec.before.dir.exists /\ rec.err # "failed to get directory"
            => rec.err = NoError /\ rec.requeueAfter = 0 /\ NoEffect)
    /\ [][(\E statusFails \in BOOLEAN, pw \in PasswordDraws :
               Reconcile("get", statusFails, pw))
            => rec'.err = "failed to get directory" /\ rec'.requeueAfter = 0
               /\ rec'.trace = <<>> /\ rec'.events = <<>>
               /\ dir' = dir /\ cluster' = cluster]_vars

\* a Reconcile of an object that is gone, before what it owned is collected
C35_Witness ==
    /\ rec.called /\ ~rec.before.dir.exists /\ rec.err = NoError
    /\ rec.before.cluster.sts.exists

(***************************************************************************)
(* Properties across objects                                               *)
(***************************************************************************)
\* C25: two distinct stored objects never compute the same DN.
C25_DisjointDNs ==
    (lastDN.called /\ lastDN.err = NoError) =>
        \A m \in DOMAIN groups \ {lastDN.obj} :
            LET other == LDAPGroup_GetDistinguishedName(groups[m], directories, groups,
                                                        MaxDepth)
            IN  other.err = NoError => other.dn # lastDN.dn

\* C26: an update of a stored directory leaves the DN suffix that
\* GetDistinguishedName reports for it as it was.
C26_RootSuffixImmutable ==
    [][\A n \in DOMAIN directories \cap DOMAIN directories' :
          LDAPDirectory_GetDistinguishedName(directories'[n]).dn
              = LDAPDirectory_GetDistinguishedName(directories[n]).dn]_vars


(***************************************************************************)
(* Properties of the object reconciler (SpecObjectsFair)                   *)
(***************************************************************************)
ObjectReconciled(n) == orec.called /\ orec.obj = n

\* everything the child g1 refers to is stored and g1 itself is not going away
ChildCanBeApplied ==
    /\ "d1" \in DOMAIN directories
    /\ {"g1", "g2"} \subseteq DOMAIN groups
    /\ ~objs["g1"].deleting

RacedAhead ==
    orec.called /\ orec.step = "resolve" /\ (orec.directoryMissing \/ orec.parentMissing)

PendingAndRetried ==
    /\ orec.phase = PhasePending /\ objs[orec.obj].phase = PhasePending
    /\ orec.err = NoError /\ orec.requeueAfter = reconcileRetryInterval
    /\ objs[orec.obj].pc = "idle"

\* C23: an object reconciled before its directory or parent exists is marked
\* Pending and requeued, the reconcile returns; and if from some point on the
\* directory, the parent and the child stay present, then from some point on
\* the child is Ready.
C23_ChildRacingAhead ==
    /\ [](RacedAhead => PendingAndRetried)
    /\ (<>[]ChildCanBeApplied => <>[](objs["g1"].phase = PhaseReady))

\* the child was Pending and its apply made it Ready
C23_Witness ==
    /\ ObjectReconciled("g1") /\ orec.step = "apply"
    /\ orec.phaseBefore = PhasePending /\ orec.phase = PhaseReady

\* C24: a reconcile that finds the parent missing, at whichever step, leaves
\* the object Pending with a retry and never Failed.
C24_MissingParentIsPending ==
    orec.called /\ orec.parentMissing /\ orec.step # "delete"
        => /\ orec.phase = PhasePending
           /\ orec.requeueAfter = reconcileRetryInterval

\* C27: a finalizer goes away only in a reconcile that called the delete of
\* the remote entry and left no entry behind; a delete that finds no entry
\* succeeds and releases the object.
C27_CleanupBeforeRelease ==
    /\ [][\A n \in ObjectNames :
            objs[n].finalizer /\ ~objs'[n].finalizer
                => /\ objs[n].deleting
                   /\ orec'.obj = n /\ orec'.deleteAttempted /\ orec'.released
                   /\ ~orec'.entryAfter]_vars
    /\ [](orec.called /\ orec.released => orec.deleteAttempted /\ ~orec.entryAfter)
    /\ [](orec.called /\ orec.deleteAttempted /\ ~orec.entryBefore
            => orec.released /\ orec.err = NoError /\ orec.obj \notin DOMAIN groups)

\* a deleting object whose entry was already gone is released
C27_Witness ==
    orec.called /\ orec.deleteAttempted /\ ~orec.entryBefore /\ orec.released

\* a deleting object whose entry was still there is released after the delete
C27_WitnessDeleted ==
    orec.called /\ orec.deleteAttempted /\ orec.entryBefore /\ orec.released

(***************************************************************************)
(* Properties of the templates (SpecVolumes, SpecLabels)                   *)
(***************************************************************************)
Names(list) == {list[i].Name : i \in DOMAIN list}
FirstIndex(list, name) ==
    CHOOSE i \in DOMAIN list : list[i].Name = name /\ \A j \in 1..(i - 1) : list[j].Name # name
LastItem(list, name) ==
    list[CHOOSE i \in DOMAIN list :
             list[i].Name = name /\ \A j \in (i + 1)..Len(list) : list[j].Name # name]

\* result is defaults overridden and extended by the user's items
IsOverrideMerge(defaults, user, result) ==
    /\ \A i, j \in DOMAIN result : result[i].Name = result[j].Name => i = j
    /\ Names(result) = Names(defaults) \cup Names(user)
    /\ \A i \in DOMAIN defaults :
          result[i] = IF defaults[i].Name \in Names(user)
                      THEN LastItem(user, defaults[i].Name)
                      ELSE defaults[i]
    /\ \A k \in (Len(defaults) + 1)..Len(result) :
          /\ result[k] = LastItem(user, result[k].Name)
          /\ \A l \in (k + 1)..Len(result) :
                FirstIndex(user, result[k].Name) < FirstIndex(user, result[l].Name)

\* C34: in the generated StatefulSet the volume claim templates and the
\* volume mounts hold each name once: a default is replaced in its position
\* by the user's item of that name, the user's other items follow in the
\* order they were given, a default not overridden is unchanged, and of
\* several user items of one name the last one is taken.
C34_OverrideMerge ==
    tplOut.called =>
        /\ IsOverrideMerge(defaultVolumeClaimTemplates, tplIn.VolumeClaimTemplates,
                           tplOut.sts.VolumeClaimTemplates)
        /\ IsOverrideMerge(defaultVolumeMounts, tplIn.VolumeMounts,
                           tplOut.sts.VolumeMounts)

\* the user gave one new name twice, with different bodies, and overrode certs
C34_Witness ==
    /\ tplOut.called
    /\ tplIn.VolumeClaimTemplates = <<Item("extra", "u1"), Item("extra", "u2")>>
    /\ tplIn.VolumeMounts = <<Item("certs", "u1"), Item("extra", "u2")>>

\* two new names, given in an order that is not the alphabetical one
C34_WitnessOrder ==
    /\ tplOut.called
    /\ tplIn.VolumeClaimTemplates = <<Item("more", "u1"), Item("extra", "u2")>>
    /\ tplOut.sts.VolumeClaimTemplates =
           defaultVolumeClaimTemplates \o <<Item("more", "u1"), Item("extra", "u2")>>

\* C36: the Service selector, the StatefulSet selector and the pod template
\* labels are name=ldap and instance=<directory name> whatever the user's
\* labels, and both objects are named "ldap-<directory name>" in the
\* namespace of the directory.
C36_ServiceReachesPods ==
    tplOut.called =>
        LET pairs == [k \in {LabelName, LabelInstance} |->
                         IF k = LabelName THEN "ldap" ELSE tplIn.Name]
        IN  /\ tplOut.svc.Selector = pairs
            /\ tplOut.sts.Selector = pairs
            /\ tplOut.sts.PodLabels = pairs
            /\ tplOut.svc.Name = <<"l", "d", "a", "p", "-">> \o tplIn.Name
            /\ tplOut.sts.Name = tplOut.svc.Name
            /\ tplOut.svc.Namespace = tplIn.Namespace
            /\ tplOut.sts.Namespace = tplIn.Namespace

\* the user labelled the directory with the keys of the selector
C36_Witness ==
    /\ tplOut.called
    /\ {LabelName, LabelInstance} \subseteq DOMAIN tplIn.Labels
    /\ tplIn.Name = <<"d", "2">> /\ tplIn.Namespace = "ns2"

ManagedValue(k) ==
    IF k = LabelName THEN "directory"
    ELSE IF k = LabelInstance THEN tplIn.Name
    ELSE "ldap-operator"

IsManagedLabelling(labels) ==
    /\ DOMAIN labels = DOMAIN tplIn.Labels \cup ManagedLabels
    /\ \A k \in DOMAIN labels :
          labels[k] = IF k \in ManagedLabels THEN ManagedValue(k) ELSE tplIn.Labels[k]

\* C37: the labels of the generated StatefulSet and Service are the labels
\* of the directory with name, instance and managed-by set to "directory",
\* the directory name and "ldap-operator"; every other label is the user's.
C37_ManagedLabelsWin ==
    tplOut.called =>
        IsManagedLabelling(tplOut.sts.Labels) /\ IsManagedLabelling(tplOut.svc.Labels)

\* the user set all three managed keys and a label of their own
C37_Witness ==
    /\ tplOut.called
    /\ DOMAIN tplIn.Labels = UserLabelKeys
====
